---- MODULE Spec2Model ----
(***************************************************************************)
(* Model of yamlc (src/yamlc.go): the comment-aware YAML generator, its    *)
(* style codec, its option validation and its validators.                  *)
(*                                                                         *)
(* A Go string is modelled as the sequence of its code points (runes); a   *)
(* []byte as the sequence of its bytes (Utf8Encode / Utf8Decode convert).  *)
(***************************************************************************)
EXTENDS Integers, Sequences, FiniteSets, TLC

VARIABLES GlobalCommentStyle, lastSet, pc, call, ret

vars == <<GlobalCommentStyle, lastSet, pc, call, ret>>

----------------------------------------------------------------------------
(* ------------------------- package strings --------------------------- *)

Min(a, b) == IF a < b THEN a ELSE b

Max(a, b) == IF a > b THEN a ELSE b

HasPrefix(s, p) == Len(p) <= Len(s) /\ SubSeq(s, 1, Len(p)) = p

HasSuffix(s, p) == Len(p) <= Len(s) /\ SubSeq(s, Len(s) - Len(p) + 1, Len(s)) = p

\* strings.Contains for a non-empty substring
Contains(s, sub) == \E i \in 1..(Len(s) - Len(sub) + 1) : SubSeq(s, i, i + Len(sub) - 1) = sub

\* strings.ContainsAny; the character set is given as a sequence
ContainsAny(s, chars) == \E i \in 1..Len(s) : \E j \in 1..Len(chars) : s[i] = chars[j]

Indices(s) == [i \in 1..Len(s) |-> i]

\* the positions of s whose character is in the set cs, in increasing order
Positions(s, cs) == SelectSeq(Indices(s), LAMBDA i : s[i] \in cs)

\* index of the first occurrence of the character c in s, 0 if there is none
IndexChar(s, c) == LET p == Positions(s, {c}) IN IF Len(p) = 0 THEN 0 ELSE p[1]

\* strings.Split(s, sep) for a one-character separator
Split(s, c) == LET p == Positions(s, {c})
                   n == Len(p)
               IN [k \in 1..(n + 1) |-> SubSeq(s, IF k = 1 THEN 1 ELSE p[k - 1] + 1, IF k = n + 1 THEN Len(s) ELSE p[k] - 1)]

\* strings.SplitN(s, sep, 2) for a one-character separator
SplitN2(s, c) == LET i == IndexChar(s, c) IN IF i = 0 THEN <<s>> ELSE <<SubSeq(s, 1, i - 1), SubSeq(s, i + 1, Len(s))>>

RECURSIVE Concat(_, _, _)
\* parts[lo] \o ... \o parts[hi], joined by halves
Concat(parts, lo, hi) == IF lo > hi THEN <<>>
                         ELSE IF lo = hi THEN parts[lo]
                         ELSE Concat(parts, lo, (lo + hi) \div 2) \o Concat(parts, (lo + hi) \div 2 + 1, hi)

\* strings.Join
Join(parts, sep) == Concat([i \in 1..Len(parts) |-> IF i = 1 THEN parts[1] ELSE sep \o parts[i]], 1, Len(parts))

\* strings.Repeat
Repeat(s, n) == IF n <= 0 THEN <<>> ELSE [i \in 1..(n * Len(s)) |-> s[((i - 1) % Len(s)) + 1]]

\* unicode.IsSpace
IsSpace(r) == \/ r \in {9, 10, 11, 12, 13, 32, 133, 160, 5760, 8232, 8233, 8239, 8287, 12288}
              \/ (r >= 8192 /\ r <= 8202)

\* unicode.IsControl: the C0 and C1 control characters
IsControl(r) == r <= 31 \/ (r >= 127 /\ r <= 159)

\* unicode.IsDigit: decimal digits (ASCII, Arabic-Indic, Devanagari, fullwidth)
IsDigit(r) == \/ (r >= 48 /\ r <= 57)
              \/ (r >= 1632 /\ r <= 1641)
              \/ (r >= 2406 /\ r <= 2415)
              \/ (r >= 65296 /\ r <= 65305)

\* the positions of s whose character is kept by a trim that removes cut
Kept(s, cut) == SelectSeq(Indices(s), LAMBDA i : s[i] \notin cut)

\* strings.TrimLeft(s, cutset), the cutset given as a set
TrimLeftSet(s, cut) == LET k == Kept(s, cut) IN IF Len(k) = 0 THEN <<>> ELSE SubSeq(s, k[1], Len(s))

\* strings.TrimRight(s, cutset)
TrimRightSet(s, cut) == LET k == Kept(s, cut) IN IF Len(k) = 0 THEN <<>> ELSE SubSeq(s, 1, k[Len(k)])

NonSpace(s) == SelectSeq(Indices(s), LAMBDA i : ~IsSpace(s[i]))

TrimLeftSpace(s) == LET k == NonSpace(s) IN IF Len(k) = 0 THEN <<>> ELSE SubSeq(s, k[1], Len(s))

TrimRightSpace(s) == LET k == NonSpace(s) IN IF Len(k) = 0 THEN <<>> ELSE SubSeq(s, 1, k[Len(k)])

\* strings.TrimSpace
TrimSpace(s) == TrimRightSpace(TrimLeftSpace(s))

\* strings.ReplaceAll(s, old, new) for one-character old and new
ReplaceChar(s, old, new) == [i \in 1..Len(s) |-> IF s[i] = old THEN new ELSE s[i]]

\* strings.Fields: the maximal runs of non-space characters
Fields(s) == LET first == SelectSeq(Indices(s), LAMBDA i : ~IsSpace(s[i]) /\ (i = 1 \/ IsSpace(s[i - 1])))
                 last == SelectSeq(Indices(s), LAMBDA i : ~IsSpace(s[i]) /\ (i = Len(s) \/ IsSpace(s[i + 1])))
             IN [k \in 1..Len(first) |-> SubSeq(s, first[k], last[k])]

\* unicode.ToLower of one rune: ASCII, Latin-1, and the two letters outside
\* Latin-1 whose lower case is an ASCII letter (U+0130, U+212A)
LowerRune(r) == IF r >= 65 /\ r <= 90 THEN r + 32
                ELSE IF r >= 192 /\ r <= 222 /\ r # 215 THEN r + 32
                ELSE IF r = 304 THEN 105
                ELSE IF r = 8490 THEN 107
                ELSE r

\* strings.ToLower
ToLower(s) == [i \in 1..Len(s) |-> LowerRune(s[i])]

RECURSIVE Digits(_)
Digits(n) == IF n < 10 THEN <<48 + n>> ELSE Digits(n \div 10) \o <<48 + (n % 10)>>

\* fmt.Sprintf("%d", n)
Itoa(n) == IF n < 0 THEN <<45>> \o Digits(0 - n) ELSE Digits(n)

HexDigit(d) == IF d < 10 THEN 48 + d ELSE 87 + d

\* strconv.Quote of one rune inside double quotes
QuoteRune(r) == IF r = 34 THEN <<92, 34>>
                ELSE IF r = 92 THEN <<92, 92>>
                ELSE IF r = 7 THEN <<92, 97>>
                ELSE IF r = 8 THEN <<92, 98>>
                ELSE IF r = 12 THEN <<92, 102>>
                ELSE IF r = 10 THEN <<92, 110>>
                ELSE IF r = 13 THEN <<92, 114>>
                ELSE IF r = 9 THEN <<92, 116>>
                ELSE IF r = 11 THEN <<92, 118>>
                ELSE IF r < 32 \/ r = 127 THEN <<92, 120, HexDigit(r \div 16), HexDigit(r % 16)>>
                ELSE <<r>>

QuoteBody(s) == Concat([i \in 1..Len(s) |-> QuoteRune(s[i])], 1, Len(s))

\* fmt.Sprintf("%q", s)
Quote(s) == <<34>> \o QuoteBody(s) \o <<34>>

\* number of bytes of the UTF-8 encoding of one rune
RuneLen(r) == IF r < 128 THEN 1 ELSE IF r < 2048 THEN 2 ELSE IF r < 65536 THEN 3 ELSE 4

\* len(s) of a Go string: its length in bytes
ByteLen(s) == Len(s) + Cardinality({i \in 1..Len(s) : s[i] >= 128}) + Cardinality({i \in 1..Len(s) : s[i] >= 2048})
              + Cardinality({i \in 1..Len(s) : s[i] >= 65536})

EncodeRune(r) == IF r < 128 THEN <<r>>
                 ELSE IF r < 2048 THEN <<192 + (r \div 64), 128 + (r % 64)>>
                 ELSE IF r < 65536 THEN <<224 + (r \div 4096), 128 + ((r \div 64) % 64), 128 + (r % 64)>>
                 ELSE <<240 + (r \div 262144), 128 + ((r \div 4096) % 64), 128 + ((r \div 64) % 64), 128 + (r % 64)>>

\* []byte(s)
Utf8Encode(s) == Concat([i \in 1..Len(s) |-> EncodeRune(s[i])], 1, Len(s))

IsCont(b, i) == i <= Len(b) /\ b[i] >= 128 /\ b[i] <= 191

\* utf8.DecodeRune at position i: <<rune, size>>; an invalid byte decodes to
\* <<65533, 1>> (utf8.RuneError)
DecodeAt(b, i) == LET c == b[i] IN
    IF c < 128 THEN <<c, 1>>
    ELSE IF c >= 194 /\ c <= 223 /\ IsCont(b, i + 1) THEN <<(c - 192) * 64 + (b[i + 1] - 128), 2>>
    ELSE IF c >= 224 /\ c <= 239 /\ IsCont(b, i + 1) /\ IsCont(b, i + 2)
            /\ (c # 224 \/ b[i + 1] >= 160) /\ (c # 237 \/ b[i + 1] <= 159)
         THEN <<(c - 224) * 4096 + (b[i + 1] - 128) * 64 + (b[i + 2] - 128), 3>>
    ELSE IF c >= 240 /\ c <= 244 /\ IsCont(b, i + 1) /\ IsCont(b, i + 2) /\ IsCont(b, i + 3)
            /\ (c # 240 \/ b[i + 1] >= 144) /\ (c # 244 \/ b[i + 1] <= 143)
         THEN <<(c - 240) * 262144 + (b[i + 1] - 128) * 4096 + (b[i + 2] - 128) * 64 + (b[i + 3] - 128), 4>>
    ELSE <<65533, 1>>

\* the positions at which a rune-by-rune reading of b decodes: every byte
\* that is no continuation byte, and every continuation byte that no
\* well-formed sequence starting up to three bytes before it covers
RuneStarts(b) == SelectSeq(Indices(b), LAMBDA i :
                    \/ b[i] < 128 \/ b[i] > 191
                    \/ ~\E j \in Max(1, i - 3)..(i - 1) : DecodeAt(b, j)[2] > i - j)

\* string(data) read rune by rune
Utf8Decode(b) == LET st == RuneStarts(b) IN [k \in 1..Len(st) |-> DecodeAt(b, st[k])[1]]

----------------------------------------------------------------------------
(* --------------------------- CommentStyle ---------------------------- *)

StyleTop == 0
StyleInline == 1
StyleSmart == 2
StyleCompact == 3
StyleMinimal == 4
StyleVerbose == 5
StyleSpaced == 6
StyleGrouped == 7
StyleSectioned == 8
StyleDoc == 9
StyleSeparate == 10

GetAllStyle == <<StyleTop, StyleInline, StyleSmart, StyleCompact, StyleMinimal, StyleVerbose,
                 StyleSpaced, StyleGrouped, StyleSectioned, StyleDoc, StyleSeparate>>

GetStyleString(style) ==
    CASE style = 0 -> <<116, 111, 112>>  \* "top"
      [] style = 1 -> <<105, 110, 108, 105, 110, 101>>  \* "inline"
      [] style = 2 -> <<115, 109, 97, 114, 116>>  \* "smart"
      [] style = 3 -> <<99, 111, 109, 112, 97, 99, 116>>  \* "compact"
      [] style = 4 -> <<109, 105, 110, 105, 109, 97, 108>>  \* "minimal"
      [] style = 5 -> <<118, 101, 114, 98, 111, 115, 101>>  \* "verbose"
      [] style = 6 -> <<115, 112, 97, 99, 101, 100>>  \* "spaced"
      [] style = 7 -> <<103, 114, 111, 117, 112, 101, 100>>  \* "grouped"
      [] style = 8 -> <<115, 101, 99, 116, 105, 111, 110, 101, 100>>  \* "sectioned"
      [] style = 9 -> <<100, 111, 99>>  \* "doc"
      [] style = 10 -> <<115, 101, 112, 97, 114, 97, 116, 101>>  \* "separate"
      [] OTHER -> <<115, 109, 97, 114, 116>>  \* "smart"

\* GetStyleFromString comparing styleStr as it is written
GetStyleFromStringExact(styleStr) ==
    IF \E n \in 0..StyleSeparate : GetStyleString(n) = styleStr
    THEN CHOOSE n \in 0..StyleSeparate : GetStyleString(n) = styleStr
    ELSE StyleSmart

GetStyleFromString(styleStr) ==
    LET l == ToLower(styleStr) IN
    CASE l = <<116, 111, 112>> -> StyleTop  \* "top"
      [] l = <<105, 110, 108, 105, 110, 101>> -> StyleInline  \* "inline"
      [] l = <<115, 109, 97, 114, 116>> -> StyleSmart  \* "smart"
      [] l = <<99, 111, 109, 112, 97, 99, 116>> -> StyleCompact  \* "compact"
      [] l = <<109, 105, 110, 105, 109, 97, 108>> -> StyleMinimal  \* "minimal"
      [] l = <<118, 101, 114, 98, 111, 115, 101>> -> StyleVerbose  \* "verbose"
      [] l = <<115, 112, 97, 99, 101, 100>> -> StyleSpaced  \* "spaced"
      [] l = <<103, 114, 111, 117, 112, 101, 100>> -> StyleGrouped  \* "grouped"
      [] l = <<115, 101, 99, 116, 105, 111, 110, 101, 100>> -> StyleSectioned  \* "sectioned"
      [] l = <<100, 111, 99>> -> StyleDoc  \* "doc"
      [] l = <<115, 101, 112, 97, 114, 97, 116, 101>> -> StyleSeparate  \* "separate"
      [] OTHER -> StyleSmart

----------------------------------------------------------------------------
(* ----------------------- Options and Option -------------------------- *)

\* WithStyle(style)
WithStyle(style) == [opt |-> "style", style |-> style]

\* WithComment(comments); a map[string]string is a record: isNil, and m, the
\* sequence of its entries [k, v] (keys pairwise distinct)
WithComment(comments) == [opt |-> "comment", comments |-> comments]

CommentMap(entries) == [isNil |-> FALSE, m |-> entries]

NilMap == [isNil |-> TRUE, m |-> <<>>]

RECURSIVE ApplyOpts(_, _)
\* for _, opt := range opts { opt(options) }
ApplyOpts(options, opts) ==
    IF Len(opts) = 0 THEN options
    ELSE LET o == opts[1] IN
         ApplyOpts(IF o.opt = "style" THEN [options EXCEPT !.Style = o.style]
                   ELSE [options EXCEPT !.Comments = Append(@, o.comments)], Tail(opts))

\* NewOptions starting from StyleTop instead of GlobalCommentStyle
NewOptionsTop(global, opts) == ApplyOpts([Style |-> StyleTop, Comments |-> <<>>], opts)

\* options := &Options{Style: GlobalCommentStyle, Comments: make(...)}; opts applied
NewOptions(global, opts) == ApplyOpts([Style |-> global, Comments |-> <<>>], opts)

----------------------------------------------------------------------------
(* ------------------------- reflect.Value ----------------------------- *)
(* kind: "invalid" (the nil interface), "string", "int", "bool", "ptr",   *)
(* "struct", "slice", "map"; type is Type().String().                      *)

NilValue == [kind |-> "invalid"]

StringV(s) == [kind |-> "string", type |-> <<115, 116, 114, 105, 110, 103>>, s |-> s]  \* "string"

IntV(n) == [kind |-> "int", type |-> <<105, 110, 116>>, n |-> n]  \* "int"

BoolV(b) == [kind |-> "bool", type |-> <<98, 111, 111, 108>>, b |-> b]  \* "bool"

PtrV(elem) == [kind |-> "ptr", type |-> <<42>> \o elem.type, isNil |-> FALSE, elem |-> elem]  \* "*"

NilPtrV(elemType) == [kind |-> "ptr", type |-> <<42>> \o elemType, isNil |-> TRUE]  \* "*"

\* a struct field: its Go name, its three tags (empty when absent), its value
Fld(name, yaml, yamlc, comment, val) == [name |-> name, yaml |-> yaml, yamlc |-> yamlc, comment |-> comment, val |-> val]

StructV(type, fields) == [kind |-> "struct", type |-> type, fields |-> fields]

SliceV(type, items) == [kind |-> "slice", type |-> type, items |-> items]

\* entries: the sequence of [k, v] in the order MapRange yields them
MapV(type, entries) == [kind |-> "map", type |-> type, entries |-> entries]

\* reflect.StructField.IsExported: the name starts with an upper-case letter
IsExported(f) == Len(f.name) > 0 /\ f.name[1] >= 65 /\ f.name[1] <= 90

\* Value.Len of a slice or a map
LenV(val) == IF val.kind = "slice" THEN Len(val.items) ELSE IF val.kind = "map" THEN Len(val.entries) ELSE 0

RECURSIVE isComplexType(_)
isComplexType(val) ==
    CASE val.kind = "invalid" -> FALSE
      [] val.kind \in {"struct", "map"} -> TRUE
      [] val.kind = "slice" -> Len(val.items) > 0
      [] val.kind = "ptr" -> IF val.isNil THEN FALSE ELSE isComplexType(val.elem)
      [] OTHER -> FALSE

RECURSIVE hasChildren(_)
hasChildren(val) ==
    CASE val.kind = "invalid" -> FALSE
      [] val.kind = "struct" -> Len(val.fields) > 0
      [] val.kind = "map" -> Len(val.entries) > 0
      [] val.kind = "slice" -> IF Len(val.items) = 0 THEN FALSE ELSE isComplexType(val.items[1])
      [] val.kind = "ptr" -> IF val.isNil THEN FALSE ELSE hasChildren(val.elem)
      [] OTHER -> FALSE

----------------------------------------------------------------------------
(* ------------------ field names, paths and comments ------------------ *)

YamlSpecial == <<58, 35, 123, 125, 91, 93, 38, 42, 33, 124, 62, 34, 39, 37, 63, 64, 96>>

yamlKeywords == {<<116, 114, 117, 101>>, <<102, 97, 108, 115, 101>>, <<121, 101, 115>>, <<110, 111>>, <<111, 110>>, <<111, 102, 102>>, <<110, 117, 108, 108>>, <<110, 105, 108>>, <<126>>,  \* "true" "false" "yes" "no" "on" "off" "null" "nil" "~"
                 <<84, 114, 117, 101>>, <<70, 97, 108, 115, 101>>, <<84, 82, 85, 69>>, <<70, 65, 76, 83, 69>>, <<89, 101, 115>>, <<78, 111>>, <<89, 69, 83>>, <<78, 79>>,  \* "True" "False" "TRUE" "FALSE" "Yes" "No" "YES" "NO"
                 <<79, 110>>, <<79, 102, 102>>, <<79, 78>>, <<79, 70, 70>>, <<78, 117, 108, 108>>, <<78, 85, 76, 76>>, <<78, 105, 108>>, <<78, 73, 76>>}  \* "On" "Off" "ON" "OFF" "Null" "NULL" "Nil" "NIL"

\* key[0] is the first byte of the key
isValidKeyName(key) ==
    /\ key # <<>>
    /\ ~(LET firstChar == Utf8Encode(<<key[1]>>)[1] IN (firstChar >= 48 /\ firstChar <= 57) \/ firstChar = 45 \/ firstChar = 95)
    /\ ~ContainsAny(key, YamlSpecial)
    /\ key \notin yamlKeywords

\* the name a tag gives: its part before the first comma, when usable
TagName(tag) == LET parts == Split(tag, 44) IN
    IF parts[1] # <<>> /\ parts[1] # <<45>> /\ ~ContainsAny(parts[1], <<61>>) /\ isValidKeyName(parts[1]) THEN parts[1] ELSE <<>>  \* "-" "="

getFieldName(f) ==
    IF f.yaml # <<>> /\ f.yaml = <<45>> THEN <<45>>  \* "-" "-"
    ELSE IF f.yaml # <<>> /\ TagName(f.yaml) # <<>> THEN TagName(f.yaml)
    ELSE IF f.yamlc # <<>> /\ f.yamlc = <<45>> THEN <<45>>  \* "-" "-"
    ELSE IF f.yamlc # <<>> /\ TagName(f.yamlc) # <<>> THEN TagName(f.yamlc)
    ELSE <<45>>  \* "-"

buildFieldPath(fieldPath, fieldName) == IF fieldPath # <<>> THEN fieldPath \o <<46>> \o fieldName ELSE fieldName  \* "."

sanitizeComment(comment) == Join(Fields(ReplaceChar(ReplaceChar(ReplaceChar(comment, 10, 32), 9, 32), 13, 32)), <<32>>)  \* " "

\* commentMap[fieldPath]: <<exists, comment>>
MapGet(commentMap, fieldPath) ==
    IF \E i \in 1..Len(commentMap.m) : commentMap.m[i].k = fieldPath
    THEN <<TRUE, commentMap.m[CHOOSE i \in 1..Len(commentMap.m) : commentMap.m[i].k = fieldPath].v>>
    ELSE <<FALSE, <<>>>>

\* the part of a tag that starts with "comment=", with the prefix cut: <<found, text>>
TagComment(tag) == LET parts == Split(tag, 44) IN
    IF \E i \in 1..Len(parts) : HasPrefix(parts[i], <<99, 111, 109, 109, 101, 110, 116, 61>>)  \* "comment="
    THEN <<TRUE, LET i == CHOOSE i \in 1..Len(parts) : HasPrefix(parts[i], <<99, 111, 109, 109, 101, 110, 116, 61>>) /\ \A j \in 1..(i - 1) : ~HasPrefix(parts[j], <<99, 111, 109, 109, 101, 110, 116, 61>>)  \* "comment=" "comment="
                 IN SubSeq(parts[i], 9, Len(parts[i]))>>
    ELSE <<FALSE, <<>>>>

getComment(f, fieldPath, options) ==
    IF \E i \in 1..Len(options.Comments) : MapGet(options.Comments[i], fieldPath)[1]
    THEN sanitizeComment(MapGet(options.Comments[CHOOSE i \in 1..Len(options.Comments) :
             MapGet(options.Comments[i], fieldPath)[1] /\ \A j \in 1..(i - 1) : ~MapGet(options.Comments[j], fieldPath)[1]], fieldPath)[2])
    ELSE IF f.yamlc # <<>> /\ TagComment(f.yamlc)[1] THEN sanitizeComment(TagComment(f.yamlc)[2])
    ELSE IF f.comment # <<>> THEN sanitizeComment(f.comment)
    ELSE IF f.yaml # <<>> /\ TagComment(f.yaml)[1] THEN sanitizeComment(TagComment(f.yaml)[2])
    ELSE <<>>

RECURSIVE collectFrom(_, _, _, _)
\* the loop of collectFieldInfo from field i on
collectFrom(val, i, fieldPath, options) ==
    IF i > Len(val.fields) THEN <<>>
    ELSE LET f == val.fields[i]
             fieldName == getFieldName(f)
             currentFieldPath == buildFieldPath(fieldPath, fieldName)
         IN IF ~IsExported(f) \/ fieldName = <<45>> THEN collectFrom(val, i + 1, fieldPath, options)  \* "-"
            ELSE <<[Name |-> fieldName,
                    Comment |-> getComment(f, currentFieldPath, options),
                    Field |-> f.val,
                    FieldType |-> f,
                    HasChildren |-> hasChildren(f.val),
                    FieldPath |-> currentFieldPath]>> \o collectFrom(val, i + 1, fieldPath, options)

collectFieldInfo(val, fieldPath, options) == collectFrom(val, 1, fieldPath, options)

----------------------------------------------------------------------------
(* ------------------------- scalar renderers -------------------------- *)
(* A (string, error) result is a record: err = "" for a nil error.         *)

Ok(s) == [s |-> s, err |-> ""]

Err(e) == [s |-> <<>>, err |-> e]

validateStringContent(str) == IF \E i \in 1..Len(str) : IsControl(str[i]) /\ str[i] # 10 /\ str[i] # 9 /\ str[i] # 13 THEN "invalid control character" ELSE ""

isNumericString(str) ==
    /\ str # <<>>
    /\ \A i \in 1..Len(str) : \/ (i = 1 /\ (str[i] = 43 \/ str[i] = 45))
                              \/ IsDigit(str[i]) \/ str[i] = 46 \/ str[i] = 101 \/ str[i] = 69
    /\ ContainsAny(str, <<48, 49, 50, 51, 52, 53, 54, 55, 56, 57>>)  \* "0123456789"

\* needsQuoting with "~" among the special characters
needsQuotingTilde(str) ==
    \/ str = <<>>
    \/ str \in yamlKeywords
    \/ isNumericString(str)
    \/ ContainsAny(str, YamlSpecial \o <<126>>)  \* "~"
    \/ ContainsAny(str, <<10>>)  \* "\n"
    \/ HasPrefix(str, <<32>>) \/ HasSuffix(str, <<32>>)  \* " " " "
    \/ (Len(str) > 0 /\ (str[1] = 43 \/ str[1] = 45))

needsQuoting(str) ==
    \/ str = <<>>
    \/ str \in yamlKeywords
    \/ isNumericString(str)
    \/ ContainsAny(str, YamlSpecial)
    \/ ContainsAny(str, <<10>>)  \* "\n"
    \/ HasPrefix(str, <<32>>) \/ HasSuffix(str, <<32>>)  \* " " " "
    \/ (Len(str) > 0 /\ (str[1] = 43 \/ str[1] = 45))

generateString(val) == IF validateStringContent(val.s) # "" THEN Err("invalid string content") ELSE IF needsQuoting(val.s) THEN Ok(Quote(val.s)) ELSE Ok(val.s)

\* val.Int() of an intN value always lies in the range of intN: the range
\* checks of generateInt never fail
generateInt(val) == Ok(Itoa(val.n))

generateBool(val) == Ok(IF val.b THEN <<116, 114, 117, 101>> ELSE <<102, 97, 108, 115, 101>>)  \* "true" "false"

\* getDisplayWidth with isWideChar
isWideChar(r) == \/ (r >= 4352 /\ r <= 4447)
                 \/ (r >= 11904 /\ r <= 40959)
                 \/ (r >= 44032 /\ r <= 55215)
                 \/ (r >= 63744 /\ r <= 64255)
                 \/ (r >= 65072 /\ r <= 65103)
                 \/ (r >= 65280 /\ r <= 65519)

getDisplayWidth(s) == Len(s) + Cardinality({i \in 1..Len(s) : isWideChar(s[i])})

normalizeTrailingNewlines1(content) == IF HasSuffix(content, <<10>>) THEN TrimRightSet(content, {10}) \o <<10>> ELSE content  \* "\n" "\n"

getIndentLevel(indentStr) == Len(indentStr) \div 2

isEmptyContainer(field) == IF field.kind \in {"slice", "map"} THEN LenV(field) = 0 ELSE FALSE

getEmptyContainerValue(field) == IF field.kind = "slice" THEN <<91, 93>> ELSE IF field.kind \in {"map", "struct"} THEN <<123, 125>> ELSE <<>>  \* "[]" "{}"

RECURSIVE calcMaxFrom(_, _)
calcMaxFrom(fields, i) == IF i > Len(fields) THEN 0 ELSE Max(ByteLen(fields[i].Name) + 1, calcMaxFrom(fields, i + 1))

\* len(field.Name) is the length of the name in bytes
calculateMaxFieldNameLen(fields) == calcMaxFrom(fields, 1)

shouldAddSpacing(style, currentIndex, totalFields) ==
    IF currentIndex >= totalFields - 1 THEN FALSE
    ELSE style = StyleSpaced \/ style = StyleGrouped \/ style = StyleSectioned

IsCommentLine(line) == HasPrefix(TrimSpace(line), <<35>>)  \* "#"

IsBlankLine(line) == TrimSpace(line) = <<>>

\* addDashPrefix: the lines kept, then "- " put on the first non-blank, non-comment line
addDashPrefix(content, indentStr, keepComments) ==
    LET all == Split(content, 10)
        lines == IF keepComments THEN all ELSE SelectSeq(all, LAMBDA l : ~IsBlankLine(l) /\ ~IsCommentLine(l))
        hit == {i \in 1..Len(lines) : ~IsBlankLine(lines[i]) /\ ~IsCommentLine(lines[i])}
        first == IF hit = {} THEN 0 ELSE CHOOSE i \in hit : \A j \in hit : i <= j
    IN Join([i \in 1..Len(lines) |-> IF i = first THEN indentStr \o <<45, 32>> \o TrimSpace(lines[i]) ELSE lines[i]], <<10>>)  \* "- " "\n"

Hashes44 == Repeat(<<35>>, 44)  \* "#"

Hashes43 == Repeat(<<35>>, 43)  \* "#"

----------------------------------------------------------------------------
(* ------------------------ container renderers ------------------------ *)

RECURSIVE generateValue(_, _, _, _)

RECURSIVE mapEntries(_, _, _, _, _)
\* the loop of generateMap from entry i on
mapEntries(val, i, fieldPath, indent, options) ==
    IF i > Len(val.entries) THEN Ok(<<>>)
    ELSE LET key == val.entries[i].k
             value == val.entries[i].v
             keyStr == IF needsQuoting(key) THEN Quote(key) ELSE key
             head == Repeat(<<32, 32>>, indent) \o keyStr \o <<58>>  \* "  " ":"
             r == generateValue(value, fieldPath, indent + 1, options)
         IN IF r.err # "" THEN Err(r.err)
            ELSE LET this == IF hasChildren(value) THEN head \o <<10>> \o r.s  \* "\n"
                             ELSE head \o <<32>> \o TrimSpace(r.s) \o <<10>>  \* " " "\n"
                     rest == mapEntries(val, i + 1, fieldPath, indent, options)
                 IN IF rest.err # "" THEN Err(rest.err) ELSE Ok(this \o rest.s)

generateMap(val, fieldPath, indent, options) ==
    IF Len(val.entries) = 0 THEN Ok(<<32, 123, 125>>) ELSE mapEntries(val, 1, fieldPath, indent, options)  \* " {}"

RECURSIVE sliceItems(_, _, _, _, _)
\* the loop of generateSlice from item i (counted from 1) on
sliceItems(val, i, fieldPath, indent, options) ==
    IF i > Len(val.items) THEN Ok(<<>>)
    ELSE LET item == val.items[i]
             indentStr == Repeat(<<32, 32>>, indent)  \* "  "
             r == generateValue(item, fieldPath, indent + 1, options)
         IN IF r.err # "" THEN Err(r.err)
            ELSE LET this == IF hasChildren(item)
                             THEN addDashPrefix(r.s, indentStr, i = 1) \o (IF i = Len(val.items) THEN <<10>> ELSE <<>>)  \* "\n"
                             ELSE (IF i = 1 THEN <<10>> ELSE <<>>)  \* "\n"
                                  \o (IF TrimSpace(r.s) # <<>> THEN indentStr \o <<45, 32>> \o TrimSpace(r.s) \o <<10>>  \* "- " "\n"
                                      ELSE indentStr \o <<45, 10>>)  \* "-\n"
                     rest == sliceItems(val, i + 1, fieldPath, indent, options)
                 IN IF rest.err # "" THEN Err(rest.err) ELSE Ok(this \o rest.s)

generateSlice(val, fieldPath, indent, options) ==
    IF Len(val.items) = 0 THEN Ok(<<32, 91, 93, 10>>) ELSE sliceItems(val, 1, fieldPath, indent, options)  \* " []\n"

----------------------------------------------------------------------------
(* --------------------------- field layouts --------------------------- *)
(* A layout that writes to the strings.Builder returns the text it wrote.  *)

generateFieldValue(field, indentStr, options) ==
    IF field.HasChildren \/ field.Field.kind = "slice"
    THEN LET hasVisibleChildren == field.HasChildren \/ (field.Field.kind = "slice" /\ LenV(field.Field) > 0)
             nl == IF hasVisibleChildren THEN <<10>> ELSE <<>>  \* "\n"
             r == generateValue(field.Field, field.FieldPath, getIndentLevel(indentStr) + 1, options)
         IN IF r.err # "" THEN Err(r.err)
            ELSE IF field.Field.kind = "slice"
            THEN LET lines == SelectSeq(Split(r.s, 10), LAMBDA l : ~IsBlankLine(l))
                     commentLines == SelectSeq(lines, IsCommentLine)
                     fieldLines == SelectSeq(lines, LAMBDA l : ~IsCommentLine(l))
                     cat(ls) == Join([i \in 1..Len(ls) |-> ls[i] \o <<10>>], <<>>)  \* "\n"
                 IN Ok(nl \o (IF Len(commentLines) > 0 THEN normalizeTrailingNewlines1(cat(commentLines)) ELSE <<>>)
                          \o (IF Len(fieldLines) > 0 THEN normalizeTrailingNewlines1(cat(fieldLines)) ELSE <<>>))
            ELSE Ok(nl \o r.s)
    ELSE LET r == generateValue(field.Field, field.FieldPath, 0, options)
         IN IF r.err # "" THEN Err(r.err) ELSE Ok(<<32>> \o TrimSpace(r.s))  \* " "

\* w followed by what generateFieldValue writes
ThenFieldValue(w, field, indentStr, options) ==
    LET r == generateFieldValue(field, indentStr, options) IN IF r.err # "" THEN Err(r.err) ELSE Ok(w \o r.s)

generateTopStyleField(field, indentStr, options) ==
    ThenFieldValue((IF field.Comment # <<>> THEN indentStr \o <<35, 32>> \o field.Comment \o <<10>> ELSE <<>>)  \* "# " "\n"
                   \o indentStr \o field.Name \o <<58, 32>>, field, indentStr, options)  \* ": "

generateVerboseStyleField(field, indentStr, options) ==
    ThenFieldValue((IF field.Comment # <<>> THEN indentStr \o <<35, 32>> \o field.Comment \o <<32, 40>> \o field.Field.type \o <<41, 10>> ELSE <<>>)  \* "# " " (" ")\n"
                   \o indentStr \o field.Name \o <<58>>, field, indentStr, options)  \* ":"

generateInlineStyleField(field, indentStr, maxFieldNameLen0, options) ==
    LET maxFieldNameLen == maxFieldNameLen0 + 30
        fieldNamePart == field.Name \o <<58>>  \* ":"
        currentFieldNameLen == getDisplayWidth(fieldNamePart)
        pad(n) == Repeat(<<32>>, IF n < 1 THEN 1 ELSE n)  \* " "
    IN
    IF field.HasChildren
    THEN IF field.Comment # <<>>
         THEN IF isEmptyContainer(field.Field)
              THEN LET emptyValue == getEmptyContainerValue(field.Field)
                   IN Ok(indentStr \o fieldNamePart \o <<32>> \o emptyValue  \* " "
                         \o pad(maxFieldNameLen - currentFieldNameLen - getDisplayWidth(emptyValue) + 2)
                         \o <<35, 32>> \o field.Comment \o <<10>>)  \* "# " "\n"
              ELSE ThenFieldValue(indentStr \o fieldNamePart \o pad(maxFieldNameLen - currentFieldNameLen + 2)
                                  \o <<35, 32>> \o field.Comment, field, indentStr, options)  \* "# "
         ELSE ThenFieldValue(indentStr \o fieldNamePart \o <<32>>, field, indentStr, options)  \* " "
    ELSE IF field.Field.kind = "slice"
    THEN LET hasVisibleChildren == field.HasChildren \/ LenV(field.Field) > 0
             head == IF hasVisibleChildren
                     THEN IF field.Comment # <<>>
                          THEN indentStr \o field.Name \o <<58>>  \* ":"
                               \o Repeat(<<32>>, maxFieldNameLen + getDisplayWidth(indentStr) - getDisplayWidth(indentStr \o field.Name \o <<58, 32>>))  \* " " ": "
                               \o <<35, 32>> \o field.Comment  \* "# "
                          ELSE indentStr \o field.Name \o <<58>>  \* ":"
                     ELSE indentStr \o field.Name \o <<58, 32>>  \* ": "
             r == generateValue(field.Field, field.FieldPath, IF hasVisibleChildren THEN 1 ELSE 0, options)
             fieldValue == TrimRightSet(r.s, {10})
         IN IF r.err # "" THEN Err(r.err)
            ELSE IF field.Comment # <<>> /\ ~hasVisibleChildren
            THEN Ok(head \o fieldValue
                    \o pad(maxFieldNameLen + getDisplayWidth(indentStr) - getDisplayWidth(indentStr \o field.Name \o <<58, 32>> \o fieldValue) + 2)  \* ": "
                    \o <<35, 32>> \o field.Comment \o <<10>>)  \* "# " "\n"
            ELSE Ok(head \o fieldValue \o <<10>>)  \* "\n"
    ELSE LET head == indentStr \o field.Name \o <<58, 32>>  \* ": "
             r == generateValue(field.Field, field.FieldPath, 0, options)
             fieldValue == TrimRightSet(r.s, {10})
         IN IF r.err # "" THEN Err(r.err)
            ELSE IF field.Comment # <<>>
            THEN Ok(head \o fieldValue
                    \o pad(getDisplayWidth(indentStr) + maxFieldNameLen - getDisplayWidth(indentStr \o field.Name \o <<58, 32>> \o fieldValue) + 2)  \* ": "
                    \o <<35, 32>> \o field.Comment \o <<10>>)  \* "# " "\n"
            ELSE Ok(head \o fieldValue \o <<10>>)  \* "\n"

generateCompactStyleField(field, indentStr, options) ==
    IF field.HasChildren
    THEN IF field.Comment # <<>> /\ field.Field.kind = "slice"
         THEN Ok(IF LenV(field.Field) = 0 THEN indentStr \o field.Name \o <<58, 32, 91, 93, 32, 35, 32>> \o field.Comment \o <<10>> ELSE <<>>)  \* ": [] # " "\n"
         ELSE IF field.Comment # <<>> /\ field.Field.kind = "map"
         THEN Ok(IF LenV(field.Field) = 0 THEN indentStr \o field.Name \o <<58, 32, 123, 125, 32, 35, 32>> \o field.Comment \o <<10>> ELSE <<>>)  \* ": {} # " "\n"
         ELSE IF field.Comment # <<>> /\ field.Field.kind = "struct"
         THEN Ok(IF Len(collectFieldInfo(field.Field, field.FieldPath, options)) = 0
                 THEN indentStr \o field.Name \o <<58, 32, 123, 125, 32, 35, 32>> \o field.Comment \o <<10>> ELSE <<>>)  \* ": {} # " "\n"
         ELSE ThenFieldValue(IF field.Comment # <<>> THEN indentStr \o field.Name \o <<58, 32, 32, 35, 32>> \o field.Comment  \* ":  # "
                             ELSE indentStr \o field.Name \o <<58, 32>>, field, indentStr, options)  \* ": "
    ELSE LET hasVisibleChildren == field.Field.kind = "slice" /\ LenV(field.Field) > 0
             head == IF hasVisibleChildren /\ field.Comment # <<>>
                     THEN indentStr \o field.Name \o <<58, 32, 35, 32>> \o field.Comment  \* ": # "
                     ELSE indentStr \o field.Name \o <<58, 32>>  \* ": "
             r == generateValue(field.Field, field.FieldPath, IF hasVisibleChildren THEN 1 ELSE 0, options)
             fieldValue == TrimRightSet(r.s, {10})
         IN IF r.err # "" THEN Err(r.err)
            ELSE IF field.Comment # <<>> /\ ~hasVisibleChildren
            THEN Ok(head \o fieldValue \o <<32, 35, 32>> \o field.Comment \o <<10>>)  \* " # " "\n"
            ELSE Ok(head \o fieldValue \o <<10>>)  \* "\n"

\* generateFieldWithComment whose Smart style is Inline for every field
generateFieldWithCommentInline(field, indent, commentStyle0, maxFieldNameLen, options) ==
    LET indentStr == Repeat(<<32, 32>>, indent)  \* "  "
        commentStyle == IF commentStyle0 = StyleSmart THEN StyleInline ELSE commentStyle0
    IN CASE commentStyle = StyleTop -> generateTopStyleField(field, indentStr, options)
         [] commentStyle = StyleInline -> generateInlineStyleField(field, indentStr, maxFieldNameLen, options)
         [] commentStyle = StyleCompact -> generateCompactStyleField(field, indentStr, options)
         [] commentStyle = StyleVerbose -> generateVerboseStyleField(field, indentStr, options)
         [] OTHER -> generateTopStyleField(field, indentStr, options)

generateFieldWithComment(field, indent, commentStyle0, maxFieldNameLen, options) ==
    LET indentStr == Repeat(<<32, 32>>, indent)  \* "  "
        commentStyle == IF commentStyle0 = StyleSmart THEN (IF field.HasChildren THEN StyleTop ELSE StyleInline) ELSE commentStyle0
    IN CASE commentStyle = StyleTop -> generateTopStyleField(field, indentStr, options)
         [] commentStyle = StyleInline -> generateInlineStyleField(field, indentStr, maxFieldNameLen, options)
         [] commentStyle = StyleCompact -> generateCompactStyleField(field, indentStr, options)
         [] commentStyle = StyleVerbose -> generateVerboseStyleField(field, indentStr, options)
         [] OTHER -> generateTopStyleField(field, indentStr, options)

----------------------------------------------------------------------------
(* -------------------------- struct renderers ------------------------- *)

RECURSIVE defaultFields(_, _, _, _)
\* the loop of generateStructDefault from field i on
defaultFields(fields, i, indent, options) ==
    IF i > Len(fields) THEN Ok(<<>>)
    ELSE LET r == generateFieldWithComment(fields[i], indent, options.Style, calculateMaxFieldNameLen(fields), options)
         IN IF r.err # "" THEN Err(r.err)
            ELSE LET rest == defaultFields(fields, i + 1, indent, options)
                 IN IF rest.err # "" THEN Err(rest.err)
                    ELSE Ok(r.s \o (IF shouldAddSpacing(options.Style, i - 1, Len(fields)) THEN <<10>> ELSE <<>>) \o rest.s)  \* "\n"

generateStructDefault(fields, indent, options) == defaultFields(fields, 1, indent, options)

RECURSIVE plainFields(_, _, _, _)
\* the field loop shared by generateStructDoc and generateStructSeparate
plainFields(fields, i, indent, options) ==
    IF i > Len(fields) THEN Ok(<<>>)
    ELSE LET field == fields[i]
             r == generateValue(field.Field, field.FieldPath, indent + 1, options)
         IN IF r.err # "" THEN Err(r.err)
            ELSE LET rest == plainFields(fields, i + 1, indent, options)
                 IN IF rest.err # "" THEN Err(rest.err)
                    ELSE Ok(Repeat(<<32, 32>>, indent) \o field.Name \o <<58, 32>>  \* "  " ": "
                            \o (IF field.HasChildren THEN <<10>> ELSE <<>>) \o r.s  \* "\n"
                            \o (IF i < Len(fields) THEN <<10>> ELSE <<>>) \o rest.s)  \* "\n"

RECURSIVE docBannerAll(_, _, _)
\* a banner that goes on behind the first field with children
docBannerAll(fields, i, indentStr) ==
    IF i > Len(fields) THEN <<>>
    ELSE LET field == fields[i]
         IN (IF field.Comment # <<>>
             THEN indentStr \o <<35, 32>> \o field.Name \o <<40>> \o field.Field.type \o <<41, 58>> \o field.Comment \o <<10>>  \* "# " "(" "):" "\n"
             ELSE <<>>)
            \o docBannerAll(fields, i + 1, indentStr)

RECURSIVE docBanner(_, _, _)
\* the banner loop of generateStructDoc: it breaks after the first field with children
docBanner(fields, i, indentStr) ==
    IF i > Len(fields) THEN <<>>
    ELSE LET field == fields[i]
         IN (IF field.Comment # <<>>
             THEN indentStr \o <<35, 32>> \o field.Name \o <<40>> \o field.Field.type \o <<41, 58>> \o field.Comment \o <<10>>  \* "# " "(" "):" "\n"
             ELSE <<>>)
            \o (IF field.HasChildren THEN <<>> ELSE docBanner(fields, i + 1, indentStr))

generateStructDoc(fields, indent, options) ==
    LET indentStr == Repeat(<<32, 32>>, indent)  \* "  "
        r == plainFields(fields, 1, indent, options)
    IN IF r.err # "" THEN Err(r.err)
       ELSE Ok(indentStr \o Hashes44 \o <<10>> \o docBanner(fields, 1, indentStr)  \* "\n"
               \o indentStr \o Hashes43 \o <<10, 10>> \o r.s)  \* "\n\n"

\* &Options{}
EmptyOptions == [Style |-> StyleTop, Comments |-> <<>>]

\* the struct whose fields document a value in the banner: <<found, struct>>
BannerStruct(v) == IF v.kind = "struct" THEN <<TRUE, v>>
                   ELSE IF v.kind = "ptr" /\ ~v.isNil /\ v.elem.kind = "struct" THEN <<TRUE, v.elem>>
                   ELSE <<FALSE, v>>

\* subFields of generateAllComments
subFieldsOf(field) ==
    LET f == field.Field IN
    CASE f.kind = "struct" -> collectFieldInfo(f, field.FieldPath, EmptyOptions)
      [] f.kind = "ptr" -> IF ~f.isNil /\ f.elem.kind = "struct" THEN collectFieldInfo(f.elem, field.FieldPath, EmptyOptions) ELSE <<>>
      [] f.kind = "slice" -> IF Len(f.items) > 0 /\ BannerStruct(f.items[1])[1]
                             THEN collectFieldInfo(BannerStruct(f.items[1])[2], field.FieldPath \o <<91, 48, 93>>, EmptyOptions) ELSE <<>>  \* "[0]"
      [] f.kind = "map" -> IF Len(f.entries) > 0 /\ BannerStruct(f.entries[1].v)[1]
                           THEN collectFieldInfo(BannerStruct(f.entries[1].v)[2], field.FieldPath \o <<91, 107, 101, 121, 93>>, EmptyOptions) ELSE <<>>  \* "[key]"
      [] OTHER -> <<>>

RECURSIVE generateAllComments(_, _, _)
\* the text generateAllComments writes for fields i.. at this indent
generateAllComments(fields, i, indent) ==
    IF i > Len(fields) THEN <<>>
    ELSE LET field == fields[i]
             subFields == IF field.HasChildren THEN subFieldsOf(field) ELSE <<>>
         IN <<35, 32>> \o Repeat(<<32, 32>>, indent) \o field.Name \o <<40>> \o field.Field.type \o <<41, 58>> \o field.Comment \o <<10>>  \* "# " "  " "(" "):" "\n"
            \o (IF Len(subFields) > 0 THEN generateAllComments(subFields, 1, indent + 1) ELSE <<>>)
            \o generateAllComments(fields, i + 1, indent)

generateStructSeparate(fields, indent, options) ==
    LET r == plainFields(fields, 1, indent, options)
    IN IF r.err # "" THEN Err(r.err)
       ELSE Ok((IF indent = 0 THEN Hashes44 \o <<10>> \o generateAllComments(fields, 1, 0) \o Hashes43 \o <<10, 10>> ELSE <<>>) \o r.s)  \* "\n" "\n\n"

RECURSIVE sectionGroups(_, _, _, _)
\* the grouping loop of generateStructSectioned: fieldInfoArrs after field i..
sectionGroups(fields, i, arrs, old_hc_label) ==
    IF i > Len(fields) THEN arrs
    ELSE LET field == fields[i] IN
         IF field.HasChildren THEN sectionGroups(fields, i + 1, Append(arrs, [Fields |-> <<field>>, isSimple |-> FALSE]), old_hc_label)
         ELSE IF old_hc_label THEN sectionGroups(fields, i + 1, Append(arrs, [Fields |-> <<field>>, isSimple |-> TRUE]), FALSE)
         ELSE sectionGroups(fields, i + 1, [arrs EXCEPT ![Len(arrs)].Fields = Append(@, field)], old_hc_label)

RECURSIVE sectionComments(_, _, _)
sectionComments(fs, i, indentStr) ==
    IF i > Len(fs) THEN <<>>
    ELSE (IF fs[i].Comment # <<>> THEN indentStr \o <<35, 32>> \o fs[i].Comment \o <<10>> ELSE <<>>) \o sectionComments(fs, i + 1, indentStr)  \* "# " "\n"

RECURSIVE sectionSimple(_, _, _, _)
\* the field loop of a simple group
sectionSimple(fs, i, indent, options) ==
    IF i > Len(fs) THEN Ok(<<>>)
    ELSE LET r == generateValue(fs[i].Field, fs[i].FieldPath, indent + 1, options)
         IN IF r.err # "" THEN Err(r.err)
            ELSE LET rest == sectionSimple(fs, i + 1, indent, options)
                 IN IF rest.err # "" THEN Err(rest.err)
                    ELSE Ok(Repeat(<<32, 32>>, indent) \o fs[i].Name \o <<58, 32>> \o <<32>> \o TrimSpace(r.s)  \* "  " ": " " "
                            \o (IF i < Len(fs) THEN <<10>> ELSE <<>>) \o rest.s)  \* "\n"

RECURSIVE sectionComplex(_, _, _, _)
\* the field loop of a group that is not simple
sectionComplex(fs, i, indent, options) ==
    IF i > Len(fs) THEN Ok(<<>>)
    ELSE LET indentStr == Repeat(<<32, 32>>, indent)  \* "  "
             r == generateValue(fs[i].Field, fs[i].FieldPath, indent + 1, options)
         IN IF r.err # "" THEN Err(r.err)
            ELSE LET rest == sectionComplex(fs, i + 1, indent, options)
                 IN IF rest.err # "" THEN Err(rest.err)
                    ELSE Ok((IF fs[i].Comment # <<>> THEN indentStr \o <<35, 32>> \o fs[i].Comment \o <<10>> ELSE <<>>)  \* "# " "\n"
                            \o indentStr \o fs[i].Name \o <<58, 32>>  \* ": "
                            \o (IF HasPrefix(TrimSpace(r.s), <<35>>) THEN <<10>> ELSE <<>>) \o r.s  \* "#" "\n"
                            \o (IF i < Len(fs) THEN <<10>> ELSE <<>>) \o rest.s)  \* "\n"

RECURSIVE sectionRender(_, _, _, _)
\* the rendering loop of generateStructSectioned over the groups
sectionRender(arrs, g, indent, options) ==
    IF g > Len(arrs) THEN Ok(<<>>)
    ELSE LET a == arrs[g]
             r == IF a.isSimple
                  THEN LET b == sectionSimple(a.Fields, 1, indent, options)
                       IN IF b.err # "" THEN Err(b.err)
                          ELSE Ok(sectionComments(a.Fields, 1, Repeat(<<32, 32>>, indent)) \o <<10>> \o b.s \o <<10>>)  \* "  " "\n" "\n"
                  ELSE LET b == sectionComplex(a.Fields, 1, indent, options)
                       IN IF b.err # "" THEN Err(b.err) ELSE Ok(<<10>> \o b.s)  \* "\n"
         IN IF r.err # "" THEN Err(r.err)
            ELSE LET rest == sectionRender(arrs, g + 1, indent, options)
                 IN IF rest.err # "" THEN Err(rest.err) ELSE Ok(r.s \o rest.s)

generateStructSectioned(fields, indent, options) == sectionRender(sectionGroups(fields, 1, <<>>, TRUE), 1, indent, options)

generateStruct(val, fieldPath, indent, options) ==
    LET fields == collectFieldInfo(val, fieldPath, options) IN
    IF Len(fields) = 0 THEN Ok(<<32, 123, 125, 10>>)  \* " {}\n"
    ELSE LET r == CASE options.Style = StyleDoc -> generateStructDoc(fields, indent, options)
                    [] options.Style = StyleSeparate -> generateStructSeparate(fields, indent, options)
                    [] options.Style = StyleSectioned -> generateStructSectioned(fields, indent, options)
                    [] OTHER -> generateStructDefault(fields, indent, options)
         IN IF r.err # "" THEN Err(r.err) ELSE Ok(r.s \o <<10>>)  \* "\n"

generateValue(val, fieldPath, indent, options) ==
    CASE val.kind = "invalid" -> Ok(<<110, 117, 108, 108>>)  \* "null"
      [] val.kind = "struct" -> generateStruct(val, fieldPath, indent, options)
      [] val.kind = "map" -> generateMap(val, fieldPath, indent, options)
      [] val.kind = "slice" -> generateSlice(val, fieldPath, indent, options)
      [] val.kind = "string" -> generateString(val)
      [] val.kind = "int" -> generateInt(val)
      [] val.kind = "bool" -> generateBool(val)
      [] val.kind = "ptr" -> IF val.isNil THEN Ok(<<110, 117, 108, 108>>) ELSE generateValue(val.elem, fieldPath, indent, options)  \* "null"

----------------------------------------------------------------------------
(* ------------------ yaml.Marshal (gopkg.in/yaml.v3) ------------------ *)
(* The encoder behind StyleMinimal, outside this repository; modelled      *)
(* from its documented behaviour: keys from the yaml tag (the lower-cased  *)
(* field name without one), "-" and unexported fields skipped, omitempty,  *)
(* four-space indentation, an error for an unknown tag flag or a           *)
(* duplicated key.                                                         *)

yamlKey(f) == LET parts == Split(f.yaml, 44) IN IF parts[1] # <<>> THEN parts[1] ELSE ToLower(f.name)

yamlFlagsOk(f) == LET parts == Split(f.yaml, 44) IN \A i \in 2..Len(parts) : parts[i] \in {<<111, 109, 105, 116, 101, 109, 112, 116, 121>>, <<102, 108, 111, 119>>, <<105, 110, 108, 105, 110, 101>>}  \* "omitempty" "flow" "inline"

yamlOmitEmpty(f) == LET parts == Split(f.yaml, 44) IN \E i \in 2..Len(parts) : parts[i] = <<111, 109, 105, 116, 101, 109, 112, 116, 121>>  \* "omitempty"

RECURSIVE yamlIsZero(_)
yamlIsZero(v) ==
    CASE v.kind = "string" -> v.s = <<>>
      [] v.kind = "int" -> v.n = 0
      [] v.kind = "bool" -> ~v.b
      [] v.kind = "ptr" -> v.isNil
      [] v.kind = "slice" -> Len(v.items) = 0
      [] v.kind = "map" -> Len(v.entries) = 0
      [] v.kind = "struct" -> \A i \in 1..Len(v.fields) : ~IsExported(v.fields[i]) \/ yamlIsZero(v.fields[i].val)
      [] OTHER -> TRUE

\* the fields of a struct that the encoder emits
yamlFields(v) == SelectSeq(v.fields, LAMBDA f : IsExported(f) /\ f.yaml # <<45>> /\ ~(yamlOmitEmpty(f) /\ yamlIsZero(f.val)))  \* "-"

RECURSIVE yamlTagsOk(_)
\* no struct reachable from v has an unknown flag or two fields with one key
yamlTagsOk(v) ==
    CASE v.kind = "struct" -> /\ \A i \in 1..Len(v.fields) : IsExported(v.fields[i]) /\ v.fields[i].yaml # <<45>> =>  \* "-"
                                     yamlFlagsOk(v.fields[i]) /\ yamlTagsOk(v.fields[i].val)
                              /\ \A i, j \in 1..Len(v.fields) : (i < j /\ IsExported(v.fields[i]) /\ IsExported(v.fields[j])
                                     /\ v.fields[i].yaml # <<45>> /\ v.fields[j].yaml # <<45>>) => yamlKey(v.fields[i]) # yamlKey(v.fields[j])  \* "-" "-"
      [] v.kind = "ptr" -> v.isNil \/ yamlTagsOk(v.elem)
      [] v.kind = "slice" -> \A i \in 1..Len(v.items) : yamlTagsOk(v.items[i])
      [] v.kind = "map" -> \A i \in 1..Len(v.entries) : yamlTagsOk(v.entries[i].v)
      [] OTHER -> TRUE

\* the style the emitter picks for a string: double-quoted when a plain
\* scalar would not read back as this string, single-quoted when a plain
\* scalar is not allowed, plain otherwise
yamlString(s) ==
    IF s = <<>> \/ s \in yamlKeywords \/ isNumericString(s) \/ \E i \in 1..Len(s) : IsControl(s[i]) THEN Quote(s)
    ELSE IF \/ ContainsAny(<<s[1]>>, <<35, 44, 91, 93, 123, 125, 38, 42, 33, 124, 62, 39, 34, 37, 64, 96, 45, 63, 58, 32>>) \/ s[Len(s)] = 32 \/ s[Len(s)] = 58
            \/ Contains(s, <<58, 32>>) \/ Contains(s, <<32, 35>>)  \* ": " " #"
         THEN <<39>> \o Join(Split(s, 39), <<39, 39>>) \o <<39>>  \* "'" "''" "'"
    ELSE s

RECURSIVE yamlIsBlock(_)
\* the value is emitted as a block below its key
yamlIsBlock(v) ==
    CASE v.kind = "struct" -> Len(yamlFields(v)) > 0
      [] v.kind = "slice" -> Len(v.items) > 0
      [] v.kind = "map" -> Len(v.entries) > 0
      [] v.kind = "ptr" -> ~v.isNil /\ yamlIsBlock(v.elem)
      [] OTHER -> FALSE

RECURSIVE yamlInline(_)
yamlInline(v) ==
    CASE v.kind = "string" -> yamlString(v.s)
      [] v.kind = "int" -> Itoa(v.n)
      [] v.kind = "bool" -> IF v.b THEN <<116, 114, 117, 101>> ELSE <<102, 97, 108, 115, 101>>  \* "true" "false"
      [] v.kind = "ptr" -> IF v.isNil THEN <<110, 117, 108, 108>> ELSE yamlInline(v.elem)  \* "null"
      [] v.kind = "slice" -> <<91, 93>>  \* "[]"
      [] OTHER -> <<123, 125>>  \* "{}"

RECURSIVE yamlBlock(_, _)
RECURSIVE yamlEntries(_, _, _)
\* the entries <<key, value>> of a mapping, one block each, at indentation ind
yamlEntries(kvs, i, ind) ==
    IF i > Len(kvs) THEN <<>>
    ELSE Repeat(<<32>>, ind) \o kvs[i][1] \o <<58>>  \* " " ":"
         \o (IF yamlIsBlock(kvs[i][2]) THEN <<10>> \o yamlBlock(kvs[i][2], ind + 4) ELSE <<32>> \o yamlInline(kvs[i][2]) \o <<10>>)  \* "\n" " " "\n"
         \o yamlEntries(kvs, i + 1, ind)

RECURSIVE yamlItems(_, _, _)
yamlItems(items, i, ind) ==
    IF i > Len(items) THEN <<>>
    ELSE (IF yamlIsBlock(items[i])
          THEN Repeat(<<32>>, ind) \o <<45, 32>> \o SubSeq(yamlBlock(items[i], ind + 2), ind + 3, Len(yamlBlock(items[i], ind + 2)))  \* " " "- "
          ELSE Repeat(<<32>>, ind) \o <<45, 32>> \o yamlInline(items[i]) \o <<10>>)  \* " " "- " "\n"
         \o yamlItems(items, i + 1, ind)

yamlBlock(v, ind) ==
    CASE v.kind = "struct" -> LET fs == yamlFields(v) IN yamlEntries([i \in 1..Len(fs) |-> <<yamlKey(fs[i]), fs[i].val>>], 1, ind)
      [] v.kind = "map" -> yamlEntries([i \in 1..Len(v.entries) |-> <<yamlString(v.entries[i].k), v.entries[i].v>>], 1, ind)
      [] v.kind = "slice" -> yamlItems(v.items, 1, ind)
      [] v.kind = "ptr" -> yamlBlock(v.elem, ind)

\* a generateMinimalStyleField that renders with the field-by-field engine in
\* Inline style
generateMinimalCommented(v) ==
    IF v.kind = "ptr" /\ v.isNil THEN Ok(<<110, 117, 108, 108, 10>>)  \* "null\n"
    ELSE generateValue(IF v.kind = "ptr" THEN v.elem ELSE v, <<>>, 0, [Style |-> StyleInline, Comments |-> <<>>])

\* generateMinimalStyleField: yaml.Marshal(v)
generateMinimalStyleField(v) ==
    IF ~yamlTagsOk(v) THEN Err("yaml: marshal error")
    ELSE IF yamlIsBlock(v) THEN Ok(yamlBlock(v, 0))
    ELSE Ok(yamlInline(v) \o <<10>>)  \* "\n"

----------------------------------------------------------------------------
(* ----------------------------- validators ---------------------------- *)

validateKeyName(key) ==
    IF key = <<>> THEN "key cannot be empty"
    ELSE IF (HasPrefix(key, <<34>>) /\ HasSuffix(key, <<34>>)) \/ (HasPrefix(key, <<39>>) /\ HasSuffix(key, <<39>>)) THEN ""
    ELSE IF ContainsAny(key, YamlSpecial) THEN "key contains YAML special characters"
    ELSE ""

\* the capacity append gives the one-element indentStack: 1 where int has 8
\* bytes, 2 where it has 4 (the allocator rounds up to 8 bytes)
AppendCaps == {1, 2}

\* one non-blank, non-comment line of ValidateStructure with len(indentStack) = n:
\* <<error, len(indentStack) after the line>>; "panic" is the run-time panic of
\* indentStack[:currentLevel+1] beyond the capacity
structureLine(line, n, cap) ==
    LET trimmed == TrimSpace(line)
        indent == Len(line) - Len(TrimLeftSet(line, {32}))
        currentLevel == indent \div 2
        key == TrimSpace(SplitN2(trimmed, 58)[1])
        keyErr == IF ContainsAny(trimmed, <<58>>) /\ ~HasPrefix(trimmed, <<45>>)  \* ":" "-"
                  THEN IF key = <<>> THEN "empty key"
                       ELSE IF validateKeyName(key) # "" THEN "invalid key name" ELSE ""
                  ELSE ""
    IN IF indent % 2 # 0 THEN <<"invalid indentation", n>>
       ELSE IF n = 0 THEN <<keyErr, 1>>
       ELSE IF currentLevel > n THEN <<"invalid indentation jump", n>>
       ELSE IF currentLevel + 1 > cap THEN <<"panic", n>>
       ELSE <<keyErr, currentLevel + 1>>

RECURSIVE structureFrom(_, _, _, _, _)
\* the loop of ValidateStructure over lines[lo..hi], entered in the state st
\* (<<error, len(indentStack)>>); the range is walked by halves, left to right
structureFrom(lines, lo, hi, st, cap) ==
    IF st[1] # "" \/ lo > hi THEN st
    ELSE IF lo = hi
         THEN IF IsBlankLine(lines[lo]) \/ IsCommentLine(lines[lo]) THEN st ELSE structureLine(lines[lo], st[2], cap)
    ELSE structureFrom(lines, (lo + hi) \div 2 + 1, hi, structureFrom(lines, lo, (lo + hi) \div 2, st, cap), cap)

\* ValidateStructure(data) in a build where the first append gives capacity cap
ValidateStructure(data, cap) ==
    LET lines == Split(Utf8Decode(data), 10) IN structureFrom(lines, 1, Len(lines), <<"", 0>>, cap)[1]

\* the decimal value the source compares len(comment) with
MaxCommentLen == 1000

validateCommentContent(comment) ==
    IF ByteLen(comment) > MaxCommentLen THEN "comment too long"
    ELSE IF \E i \in 1..Len(comment) : IsControl(comment[i]) /\ comment[i] # 10 /\ comment[i] # 9 /\ comment[i] # 13
         THEN "comment contains invalid control character"
    ELSE ""

\* options is a pointer: [isNil |-> TRUE] or [isNil |-> FALSE, o |-> Options]
ValidateOptions(options) ==
    IF options.isNil THEN "options cannot be nil"
    ELSE IF options.o.Style < 0 \/ options.o.Style > StyleSeparate THEN "invalid comment style"
    ELSE IF \E i \in 1..Len(options.o.Comments) :
               \/ options.o.Comments[i].isNil
               \/ \E j \in 1..Len(options.o.Comments[i].m) :
                     \/ options.o.Comments[i].m[j].k = <<>>
                     \/ validateCommentContent(options.o.Comments[i].m[j].v) # ""
         THEN "invalid comment map"
    ELSE ""

isValidUTF8(data) == LET st == RuneStarts(data) IN \A k \in 1..Len(st) : DecodeAt(data, st[k]) # <<65533, 1>>

\* strings.ReplaceAll(content, "\r\n", "\n") on bytes
dropCR(b) == LET keep == SelectSeq(Indices(b), LAMBDA i : ~(b[i] = 13 /\ i < Len(b) /\ b[i + 1] = 10))
             IN [k \in 1..Len(keep) |-> b[keep[k]]]

\* ValidateGeneratedContent: <<error, data after the call>>; copy(data, content)
\* overwrites the first len(content) bytes of data and leaves the rest
ValidateGeneratedContent(data) ==
    IF Len(data) = 0 THEN <<"generated content is empty", data>>
    ELSE IF ~isValidUTF8(data) THEN <<"invalid UTF-8", data>>
    ELSE IF Contains(data, <<13, 10>>) /\ ContainsAny(data, <<10>>)
         THEN LET content == dropCR(data) IN <<"", content \o SubSeq(data, Len(content) + 1, Len(data))>>
    ELSE <<"", data>>

----------------------------------------------------------------------------
(* ------------- ValidateYAML: the yaml.v3 decoder's verdict ----------- *)
(* The decoder is outside this repository. It is modelled as a line-wise   *)
(* well-formedness check of the block YAML the generators write: sound     *)
(* scalars on every line (closed quotes, no second "key: " inside a plain  *)
(* scalar, no reserved indicator at its start), consistent indentation of  *)
(* block mappings and sequences, no duplicated key in a mapping, no        *)
(* control character.                                                      *)

YamlIndicators == <<44, 91, 93, 123, 125, 35, 38, 42, 33, 124, 62, 39, 34, 37, 64, 96>>

\* s without its comment: cut at the first '#' that follows a space (or starts s)
stripComment(s) ==
    LET hit == {i \in 1..Len(s) : s[i] = 35 /\ (i = 1 \/ s[i - 1] = 32 \/ s[i - 1] = 9)}
    IN IF hit = {} THEN s ELSE SubSeq(s, 1, (CHOOSE i \in hit : \A j \in hit : i <= j) - 1)

\* the index of the ':' that ends a plain key in p (followed by a space or the end), 0 if none
keyColon(p) ==
    LET hit == {i \in 1..Len(p) : p[i] = 58 /\ (i = Len(p) \/ p[i + 1] = 32 \/ p[i + 1] = 9)}
    IN IF hit = {} THEN 0 ELSE CHOOSE i \in hit : \A j \in hit : i <= j

\* the index of the quote that closes the quoted scalar starting at r[1], 0 if none
closingQuote(r) ==
    LET q == r[1]
        esc(i) == q = 34 /\ Cardinality({j \in 2..(i - 1) : r[j] = 92 /\ \A k \in j..(i - 1) : r[k] = 92}) % 2 = 1
        dbl(i) == q = 39 /\ Cardinality({j \in 2..i : r[j] = 39 /\ \A k \in j..i : r[k] = 39}) % 2 = 0
        hit == {i \in 2..Len(r) : r[i] = q /\ ~esc(i) /\ ~(q = 39 /\ (dbl(i) \/ (i < Len(r) /\ r[i + 1] = 39)))}
    IN IF hit = {} THEN 0 ELSE CHOOSE i \in hit : \A j \in hit : i <= j

\* the kind of the scalar text v of a value: "empty", "plain", "done" (a
\* complete value that no following line may continue) or "bad"; after a
\* quoted scalar or an empty flow collection the scanner takes a '#' as the
\* start of a comment, with or without a space before it
valueKind(v0) ==
    LET v == TrimSpace(v0) IN
    IF v = <<>> \/ v[1] = 35 THEN "empty"
    ELSE IF v[1] = 34 \/ v[1] = 39
    THEN LET q == closingQuote(v)
             after == IF q = 0 THEN <<>> ELSE SubSeq(v, q + 1, Len(v))
         IN IF q = 0 THEN "bad"
            ELSE IF TrimSpace(after) = <<>> \/ TrimSpace(after)[1] = 35 THEN "done" ELSE "bad"
    ELSE IF v[1] = 91 \/ v[1] = 123
    THEN LET after == TrimSpace(SubSeq(v, 3, Len(v)))
         IN IF (HasPrefix(v, <<91, 93>>) \/ HasPrefix(v, <<123, 125>>)) /\ (after = <<>> \/ after[1] = 35) THEN "done" ELSE "bad"  \* "[]" "{}"
    ELSE LET p == TrimSpace(stripComment(v)) IN
         IF ContainsAny(<<p[1]>>, YamlIndicators) \/ keyColon(p) # 0 \/ HasPrefix(p, <<45, 32>>) \/ p = <<45>> THEN "bad"  \* "- " "-"
         ELSE IF p # v THEN "done" ELSE "plain"

RECURSIVE dashColumns(_, _)
\* the columns of the leading "- " indicators of the text t that starts at column col
dashColumns(t, col) ==
    IF t = <<45>> \/ HasPrefix(t, <<45, 32>>)  \* "-" "- "
    THEN LET rest == TrimLeftSet(Tail(t), {32}) IN <<col>> \o dashColumns(rest, col + (Len(t) - Len(rest)))
    ELSE <<>>

RECURSIVE afterDashes(_)
afterDashes(t) == IF t = <<45>> \/ HasPrefix(t, <<45, 32>>) THEN afterDashes(TrimLeftSet(Tail(t), {32})) ELSE t  \* "-" "- "

\* one content line: its indentation, the columns of its dashes, the column and
\* the kind of what follows them ("key", or a valueKind), the key and the kind of the key's value
yamlLine(line) ==
    LET n == Len(line) - Len(TrimLeftSet(line, {32}))
        t == TrimRightSpace(SubSeq(line, n + 1, Len(line)))
        dashes == dashColumns(t, n)
        r == afterDashes(t)
        m == n + (Len(t) - Len(r))
        quoted == r # <<>> /\ (r[1] = 34 \/ r[1] = 39)
        q == IF quoted THEN closingQuote(r) ELSE 0
        afterq == IF q = 0 THEN <<>> ELSE TrimLeftSpace(SubSeq(r, q + 1, Len(r)))
        c == IF quoted THEN (IF q # 0 /\ keyColon(afterq) = 1 THEN q + (Len(r) - q - Len(afterq)) + 1 ELSE 0)
             ELSE IF r # <<>> /\ (r[1] = 91 \/ r[1] = 123) THEN 0
             ELSE keyColon(stripComment(r))
    IN [n |-> n, dashes |-> dashes, m |-> m, text |-> t,
        kind |-> IF c # 0 THEN (IF ~quoted /\ (c = 1 \/ ContainsAny(<<r[1]>>, YamlIndicators)) THEN "bad" ELSE "key") ELSE valueKind(r),
        key |-> IF c # 0 THEN TrimSpace(SubSeq(r, 1, c - 1)) ELSE <<>>,
        val |-> IF c # 0 THEN valueKind(SubSeq(r, c + 1, Len(r))) ELSE "none"]

RECURSIVE popTo(_, _)
popTo(stack, n) == IF Len(stack) > 0 /\ stack[Len(stack)].indent > n THEN popTo(SubSeq(stack, 1, Len(stack) - 1), n) ELSE stack

Frame(kind, indent, keys) == [kind |-> kind, indent |-> indent, keys |-> keys]

\* the value status a line leaves behind: "pending" (a nested block may follow),
\* "plain" (a plain scalar that a deeper line may continue) or "done"
lineLast(l) == LET k == IF l.kind = "key" THEN l.val ELSE l.kind IN IF k = "empty" THEN "pending" ELSE k

\* the frames a line opens from its dash number d on, and its own content
openFrames(stack, l, d) ==
    stack \o [i \in 1..(Len(l.dashes) - d + 1) |-> Frame("seq", l.dashes[d + i - 1], {})]
          \o (IF l.kind = "key" THEN <<Frame("map", l.m, {l.key})>> ELSE <<>>)

BadState == [stack |-> <<>>, last |-> "bad", ok |-> FALSE]

\* the parser state after one content line
yamlStep(st, l) ==
    LET popped == popTo(st.stack, l.n)
        didPop == Len(popped) < Len(st.stack)
        top == popped[Len(popped)]
        next(stack) == [stack |-> stack, last |-> lineLast(l), ok |-> TRUE]
    IN
    IF l.kind = "bad" \/ (l.kind = "key" /\ l.val = "bad") THEN BadState
    ELSE IF Len(st.stack) = 0
    THEN IF l.dashes = <<>> /\ l.kind # "key" THEN next(<<Frame("scalar", 0 - 1, {})>>) ELSE next(openFrames(<<>>, l, 1))
    ELSE IF Len(popped) = 0 THEN BadState
    ELSE IF top.indent = l.n
    THEN IF top.kind = "map"
         THEN IF l.dashes = <<>> /\ l.kind = "key"
              THEN IF l.key \in top.keys THEN BadState
                   ELSE next([popped EXCEPT ![Len(popped)].keys = @ \cup {l.key}])
              ELSE IF l.dashes # <<>> /\ ~didPop /\ st.last = "pending" THEN next(openFrames(popped, l, 1))
              ELSE BadState
         ELSE IF top.kind = "seq"
         THEN IF l.dashes # <<>> THEN next(openFrames(popped, l, 2))
              ELSE IF l.kind = "key" /\ Len(popped) > 1 /\ popped[Len(popped) - 1].kind = "map" /\ popped[Len(popped) - 1].indent = l.n
                   THEN IF l.key \in popped[Len(popped) - 1].keys THEN BadState
                        ELSE next([SubSeq(popped, 1, Len(popped) - 1) EXCEPT ![Len(popped) - 1].keys = @ \cup {l.key}])
              ELSE BadState
         ELSE BadState
    ELSE IF didPop THEN BadState
    ELSE IF st.last = "pending" THEN next(openFrames(popped, l, 1))
    ELSE IF st.last = "plain" /\ keyColon(stripComment(l.text)) = 0
         THEN [st EXCEPT !.last = IF stripComment(l.text) # l.text THEN "done" ELSE "plain"]
    ELSE BadState

RECURSIVE yamlRun(_, _, _, _)
\* the decoder's state after lines[lo..hi], entered in the state st; the range
\* is walked by halves, left to right
yamlRun(lines, lo, hi, st) ==
    IF ~st.ok \/ lo > hi THEN st
    ELSE IF lo = hi
         THEN IF IsBlankLine(lines[lo]) \/ IsCommentLine(lines[lo]) THEN st ELSE yamlStep(st, yamlLine(lines[lo]))
    ELSE yamlRun(lines, (lo + hi) \div 2 + 1, hi, yamlRun(lines, lo, (lo + hi) \div 2, st))

\* ValidateYAML(data): "" when the decoder accepts the text
ValidateYAML(data) ==
    LET text == Utf8Decode(data) IN
    IF ~isValidUTF8(data) THEN "YAML parsing error"
    ELSE IF \E i \in 1..Len(text) : IsControl(text[i]) /\ text[i] \notin {9, 10, 13, 133} THEN "YAML parsing error"
    ELSE LET lines == Split(ReplaceChar(text, 13, 10), 10) IN
         IF yamlRun(lines, 1, Len(lines), [stack |-> <<>>, last |-> "pending", ok |-> TRUE]).ok THEN ""
         ELSE "YAML parsing error"

----------------------------------------------------------------------------
(* ------------------------- generation entries ------------------------ *)
(* A ([]byte, error) result: data, isNil (the slice is nil), err.          *)

RetErr(e) == [data |-> <<>>, isNil |-> TRUE, err |-> e]

RetOk(b) == [data |-> b, isNil |-> FALSE, err |-> ""]

\* generateMinimalStyleField or the nil-pointer test and generateValue
Generated(v, options) ==
    IF options.Style = StyleMinimal THEN generateMinimalStyleField(v)
    ELSE IF v.kind = "ptr" /\ v.isNil THEN Err("input pointer cannot be nil")
    ELSE generateValue(IF v.kind = "ptr" THEN v.elem ELSE v, <<>>, 0, options)

\* GenWith without the call of ValidateYAML
GenWithUnchecked(v, options) ==
    IF v.kind = "invalid" THEN RetErr("input value cannot be nil")
    ELSE LET r == Generated(v, options)
         IN IF r.err # "" THEN RetErr(r.err) ELSE RetOk(Utf8Encode(r.s))

\* GenWith returning the text it built together with the validation error
GenWithPartial(v, options) ==
    IF v.kind = "invalid" THEN RetErr("input value cannot be nil")
    ELSE LET r == Generated(v, options)
         IN IF r.err # "" THEN RetErr(r.err)
            ELSE IF ValidateYAML(Utf8Encode(r.s)) # ""
                 THEN [data |-> Utf8Encode(r.s), isNil |-> FALSE, err |-> "generated YAML validation failed"]
            ELSE RetOk(Utf8Encode(r.s))

\* what Gen does once its options are built
GenWith(v, options) ==
    IF v.kind = "invalid" THEN RetErr("input value cannot be nil")
    ELSE LET r == Generated(v, options)
         IN IF r.err # "" THEN RetErr(r.err)
            ELSE IF ValidateYAML(Utf8Encode(r.s)) # "" THEN RetErr("generated YAML validation failed")
            ELSE RetOk(Utf8Encode(r.s))

----------------------------------------------------------------------------
(* ------------------------------ inputs ------------------------------- *)

\* the largest ordinal passed as a CommentStyle; -1 and every ordinal above
\* StyleSeparate are out of range
MaxStyleOrd == 11

StyleArgs == (0 - 1)..MaxStyleOrd

\* the largest number of elements of a sequence value
MaxItems == 2

\* the largest number of WithComment options of one call
MaxOverrides == 2

Address(street, city) == StructV(<<121, 97, 109, 108, 99, 46, 65, 100, 100, 114, 101, 115, 115>>, <<  \* "yamlc.Address"
    Fld(<<83, 116, 114, 101, 101, 116>>, <<115, 116, 114, 101, 101, 116, 44, 111, 109, 105, 116, 101, 109, 112, 116, 121>>, <<99, 111, 109, 109, 101, 110, 116, 61, 115, 116, 114, 101, 101, 116, 32, 110, 97, 109, 101>>, <<>>, StringV(street)),  \* "Street" "street,omitempty" "comment=street name"
    Fld(<<67, 105, 116, 121>>, <<99, 105, 116, 121>>, <<>>, <<99, 105, 116, 121, 9, 111, 102, 32, 116, 104, 101, 10, 97, 100, 100, 114, 101, 115, 115>>, StringV(city))>>)  \* "City" "city" "city\tof the\naddress"

WorkExperience(company) == StructV(<<121, 97, 109, 108, 99, 46, 87, 111, 114, 107, 69, 120, 112, 101, 114, 105, 101, 110, 99, 101>>, <<  \* "yamlc.WorkExperience"
    Fld(<<67, 111, 109, 112, 97, 110, 121>>, <<99, 111, 109, 112, 97, 110, 121>>, <<99, 111, 109, 109, 101, 110, 116, 61, 101, 109, 112, 108, 111, 121, 101, 114>>, <<>>, StringV(company)),  \* "Company" "company" "comment=employer"
    Fld(<<89, 101, 97, 114, 115>>, <<121, 101, 97, 114, 115>>, <<99, 111, 109, 109, 101, 110, 116, 61, 121, 101, 97, 114, 115>>, <<>>, IntV(3))>>)  \* "Years" "years" "comment=years"

Tesc2 == StructV(<<121, 97, 109, 108, 99, 46, 84, 101, 115, 99, 50>>, <<>>)  \* "yamlc.Tesc2"

\* {name: "张三" (用户姓名), age: 30 (用户年龄)}
Person == StructV(<<121, 97, 109, 108, 99, 46, 80, 101, 114, 115, 111, 110>>, <<  \* "yamlc.Person"
    Fld(<<78, 97, 109, 101>>, <<110, 97, 109, 101, 44, 111, 109, 105, 116, 101, 109, 112, 116, 121>>, <<99, 111, 109, 109, 101, 110, 116, 61, 29992, 25143, 22995, 21517>>, <<>>, StringV(<<24352, 19977>>)),
    Fld(<<65, 103, 101>>, <<97, 103, 101, 44, 111, 109, 105, 116, 101, 109, 112, 116, 121>>, <<99, 111, 109, 109, 101, 110, 116, 61, 29992, 25143, 24180, 40836>>, <<>>, IntV(30))>>)

\* two fields without any comment
Plain == StructV(<<121, 97, 109, 108, 99, 46, 80, 108, 97, 105, 110>>, <<  \* "yamlc.Plain"
    Fld(<<72, 111, 115, 116>>, <<104, 111, 115, 116>>, <<>>, <<>>, StringV(<<101, 120, 97, 109, 112, 108, 101, 46, 111, 114, 103>>)),  \* "Host" "host" "example.org"
    Fld(<<80, 111, 114, 116>>, <<112, 111, 114, 116>>, <<>>, <<>>, IntV(8080))>>)  \* "Port" "port"

\* a field with children between fields without, and a run of two fields
\* without children behind it
Server == StructV(<<121, 97, 109, 108, 99, 46, 83, 101, 114, 118, 101, 114>>, <<  \* "yamlc.Server"
    Fld(<<72, 111, 115, 116>>, <<104, 111, 115, 116>>, <<99, 111, 109, 109, 101, 110, 116, 61, 104, 111, 115, 116, 32, 110, 97, 109, 101>>, <<>>, StringV(<<101, 120, 97, 109, 112, 108, 101, 46, 111, 114, 103>>)),  \* "Host" "host" "comment=host name" "example.org"
    Fld(<<65, 100, 100, 114, 101, 115, 115>>, <<97, 100, 100, 114, 101, 115, 115>>, <<99, 111, 109, 109, 101, 110, 116, 61, 119, 104, 101, 114, 101, 32, 105, 116, 32, 115, 116, 97, 110, 100, 115>>, <<>>, PtrV(Address(<<49, 32, 77, 97, 105, 110, 32, 83, 116>>, <<80, 97, 114, 105, 115>>))),  \* "Address" "address" "comment=where it stands" "1 Main St" "Paris"
    Fld(<<80, 111, 114, 116>>, <<112, 111, 114, 116>>, <<99, 111, 109, 109, 101, 110, 116, 61, 112, 111, 114, 116, 32, 110, 117, 109, 98, 101, 114>>, <<>>, IntV(8080)),  \* "Port" "port" "comment=port number"
    Fld(<<77, 111, 100, 101>>, <<109, 111, 100, 101>>, <<99, 111, 109, 109, 101, 110, 116, 61, 114, 117, 110, 32, 109, 111, 100, 101>>, <<>>, StringV(<<102, 97, 115, 116>>))>>)  \* "Mode" "mode" "comment=run mode" "fast"

\* one field
Single(s) == StructV(<<121, 97, 109, 108, 99, 46, 83, 105, 110, 103, 108, 101>>, <<Fld(<<84, 101, 120, 116>>, <<116, 101, 120, 116>>, <<99, 111, 109, 109, 101, 110, 116, 61, 97, 32, 116, 101, 120, 116>>, <<>>, StringV(s))>>)  \* "yamlc.Single" "Text" "text" "comment=a text"

\* an unexported field, ignored fields, a field without a name tag, a field
\* named by its yaml tag whose yamlc tag is "-", and the four places a comment
\* can come from
Tagged == StructV(<<121, 97, 109, 108, 99, 46, 84, 97, 103, 103, 101, 100>>, <<  \* "yamlc.Tagged"
    Fld(<<112, 114, 105, 118, 97, 116, 101, 70, 105, 101, 108, 100>>, <<112, 114, 105, 118, 97, 116, 101>>, <<99, 111, 109, 109, 101, 110, 116, 61, 104, 105, 100, 100, 101, 110>>, <<>>, StringV(<<112>>)),  \* "privateField" "private" "comment=hidden" "p"
    Fld(<<70, 105, 114, 115, 116>>, <<102, 105, 114, 115, 116, 44, 99, 111, 109, 109, 101, 110, 116, 61, 102, 114, 111, 109, 32, 121, 97, 109, 108>>, <<99, 111, 109, 109, 101, 110, 116, 61, 102, 114, 111, 109, 32, 121, 97, 109, 108, 99>>, <<102, 114, 111, 109, 32, 99, 111, 109, 109, 101, 110, 116>>, StringV(<<97>>)),  \* "First" "first,comment=from yaml" "comment=from yamlc" "from comment" "a"
    Fld(<<73, 103, 110, 111, 114, 101, 100, 70, 105, 101, 108, 100>>, <<45>>, <<>>, <<105, 103, 110, 111, 114, 101, 100, 32, 98, 121, 32, 121, 97, 109, 108>>, StringV(<<105>>)),  \* "IgnoredField" "-" "ignored by yaml" "i"
    Fld(<<83, 101, 99, 111, 110, 100>>, <<115, 101, 99, 111, 110, 100, 44, 99, 111, 109, 109, 101, 110, 116, 61, 102, 114, 111, 109, 32, 121, 97, 109, 108>>, <<>>, <<102, 114, 111, 109, 32, 99, 111, 109, 109, 101, 110, 116>>, StringV(<<98>>)),  \* "Second" "second,comment=from yaml" "from comment" "b"
    Fld(<<83, 107, 105, 112, 112, 101, 100>>, <<>>, <<45>>, <<105, 103, 110, 111, 114, 101, 100, 32, 98, 121, 32, 121, 97, 109, 108, 99>>, StringV(<<115>>)),  \* "Skipped" "-" "ignored by yamlc" "s"
    Fld(<<84, 104, 105, 114, 100>>, <<116, 104, 105, 114, 100, 44, 99, 111, 109, 109, 101, 110, 116, 61, 102, 114, 111, 109, 32, 121, 97, 109, 108>>, <<>>, <<>>, StringV(<<99>>)),  \* "Third" "third,comment=from yaml" "c"
    Fld(<<85, 110, 116, 97, 103, 103, 101, 100>>, <<>>, <<>>, <<110, 111, 32, 110, 97, 109, 101, 32, 116, 97, 103>>, IntV(7)),  \* "Untagged" "no name tag"
    Fld(<<70, 111, 117, 114, 116, 104>>, <<>>, <<102, 111, 117, 114, 116, 104>>, <<>>, BoolV(TRUE)),  \* "Fourth" "fourth"
    Fld(<<75, 101, 112, 116>>, <<107, 101, 112, 116>>, <<45>>, <<110, 97, 109, 101, 100, 32, 98, 121, 32, 121, 97, 109, 108>>, StringV(<<107>>))>>)  \* "Kept" "kept" "-" "named by yaml" "k"

\* a sequence of n elements, each made by item(i)
Items(type, n, item(_)) == SliceV(type, [i \in 1..n |-> item(i)])

Company(i) == PtrV(WorkExperience(IF i = 1 THEN <<99, 111, 49>> ELSE <<99, 111>> \o Itoa(i)))  \* "co1" "co"

Tag(i) == StringV(<<116>> \o Itoa(i))  \* "t"

\* nested values: a pointer to a struct, sequences of n elements, a map
User(n) == StructV(<<121, 97, 109, 108, 99, 46, 85, 115, 101, 114>>, <<  \* "yamlc.User"
    Fld(<<78, 97, 109, 101>>, <<110, 97, 109, 101>>, <<99, 111, 109, 109, 101, 110, 116, 61, 117, 115, 101, 114, 32, 110, 97, 109, 101>>, <<>>, StringV(<<98, 111, 98>>)),  \* "Name" "name" "comment=user name" "bob"
    Fld(<<65, 100, 100, 114, 101, 115, 115>>, <<97, 100, 100, 114, 101, 115, 115>>, <<99, 111, 109, 109, 101, 110, 116, 61, 117, 115, 101, 114, 32, 97, 100, 100, 114, 101, 115, 115>>, <<>>, PtrV(Address(<<49, 32, 77, 97, 105, 110, 32, 83, 116>>, <<80, 97, 114, 105, 115>>))),  \* "Address" "address" "comment=user address" "1 Main St" "Paris"
    Fld(<<84, 97, 103, 115>>, <<116, 97, 103, 115>>, <<99, 111, 109, 109, 101, 110, 116, 61, 117, 115, 101, 114, 32, 116, 97, 103, 115>>, <<>>, Items(<<91, 93, 115, 116, 114, 105, 110, 103>>, n, Tag)),  \* "Tags" "tags" "comment=user tags" "[]string"
    Fld(<<84, 101, 115, 99>>, <<116, 101, 115, 99>>, <<99, 111, 109, 109, 101, 110, 116, 61, 101, 109, 112, 116, 121>>, <<>>, PtrV(Tesc2)),  \* "Tesc" "tesc" "comment=empty"
    Fld(<<87, 111, 114, 107, 69, 120, 112, 101, 114, 105, 101, 110, 99, 101>>, <<119, 111, 114, 107, 69, 120, 112, 101, 114, 105, 101, 110, 99, 101>>, <<99, 111, 109, 109, 101, 110, 116, 61, 106, 111, 98, 115>>, <<>>, Items(<<91, 93, 42, 121, 97, 109, 108, 99, 46, 87, 111, 114, 107, 69, 120, 112, 101, 114, 105, 101, 110, 99, 101>>, n, Company)),  \* "WorkExperience" "workExperience" "comment=jobs" "[]*yamlc.WorkExperience"
    Fld(<<76, 97, 98, 101, 108, 115>>, <<108, 97, 98, 101, 108, 115>>, <<>>, <<>>, MapV(<<109, 97, 112, 91, 115, 116, 114, 105, 110, 103, 93, 115, 116, 114, 105, 110, 103>>, <<[k |-> <<97, 58, 98>>, v |-> StringV(<<120>>)]>>)),  \* "Labels" "labels" "map[string]string" "a:b" "x"
    Fld(<<78, 101, 120, 116>>, <<110, 101, 120, 116>>, <<99, 111, 109, 109, 101, 110, 116, 61, 110, 111, 32, 110, 101, 120, 116>>, <<>>, NilPtrV(<<121, 97, 109, 108, 99, 46, 85, 115, 101, 114>>))>>)  \* "Next" "next" "comment=no next" "yamlc.User"

\* a map whose values are structs with a struct below them
Fleet == StructV(<<121, 97, 109, 108, 99, 46, 70, 108, 101, 101, 116>>, <<  \* "yamlc.Fleet"
    Fld(<<82, 101, 103, 105, 111, 110>>, <<114, 101, 103, 105, 111, 110>>, <<99, 111, 109, 109, 101, 110, 116, 61, 116, 104, 101, 32, 114, 101, 103, 105, 111, 110>>, <<>>, StringV(<<101, 117>>)),  \* "Region" "region" "comment=the region" "eu"
    Fld(<<78, 111, 100, 101, 115>>, <<110, 111, 100, 101, 115>>, <<99, 111, 109, 109, 101, 110, 116, 61, 116, 104, 101, 32, 110, 111, 100, 101, 115>>, <<>>,  \* "Nodes" "nodes" "comment=the nodes"
        MapV(<<109, 97, 112, 91, 115, 116, 114, 105, 110, 103, 93, 121, 97, 109, 108, 99, 46, 83, 101, 114, 118, 101, 114>>, <<[k |-> <<110, 49>>, v |-> Server]>>))>>)  \* "map[string]yamlc.Server" "n1"

\* a sequence of pointers to structs whose first element is nil
Crew == StructV(<<121, 97, 109, 108, 99, 46, 67, 114, 101, 119>>, <<  \* "yamlc.Crew"
    Fld(<<74, 111, 98, 115>>, <<106, 111, 98, 115>>, <<99, 111, 109, 109, 101, 110, 116, 61, 116, 104, 101, 32, 106, 111, 98, 115>>, <<>>,  \* "Jobs" "jobs" "comment=the jobs"
        SliceV(<<91, 93, 42, 121, 97, 109, 108, 99, 46, 87, 111, 114, 107, 69, 120, 112, 101, 114, 105, 101, 110, 99, 101>>, <<NilPtrV(<<121, 97, 109, 108, 99, 46, 87, 111, 114, 107, 69, 120, 112, 101, 114, 105, 101, 110, 99, 101>>), Company(2)>>))>>)  \* "[]*yamlc.WorkExperience" "yamlc.WorkExperience"

\* the values passed to Gen
\* a struct held by value, under a commented field, with a control character in its string
Vault == StructV(<<121, 97, 109, 108, 99, 46, 86, 97, 117, 108, 116>>, <<  \* "yamlc.Vault"
    Fld(<<79, 119, 110, 101, 114>>, <<111, 119, 110, 101, 114>>, <<99, 111, 109, 109, 101, 110, 116, 61, 116, 104, 101, 32, 111, 119, 110, 101, 114>>, <<>>, StringV(<<97, 110, 110>>)),  \* "Owner" "owner" "comment=the owner" "ann"
    Fld(<<83, 101, 99, 114, 101, 116>>, <<115, 101, 99, 114, 101, 116>>, <<99, 111, 109, 109, 101, 110, 116, 61, 116, 104, 101, 32, 115, 101, 99, 114, 101, 116>>, <<>>, Single(<<98, 101, 108, 108, 7>>))>>)  \* "Secret" "secret" "comment=the secret" "bell\a"

\* a sequence of strings whose second element holds a control character
Chimes == StructV(<<121, 97, 109, 108, 99, 46, 67, 104, 105, 109, 101, 115>>, <<  \* "yamlc.Chimes"
    Fld(<<82, 105, 110, 103, 115>>, <<114, 105, 110, 103, 115>>, <<99, 111, 109, 109, 101, 110, 116, 61, 116, 104, 101, 32, 114, 105, 110, 103, 115>>, <<>>, SliceV(<<91, 93, 115, 116, 114, 105, 110, 103>>, <<StringV(<<111, 107>>), StringV(<<98, 101, 108, 108, 7>>)>>))>>)  \* "Rings" "rings" "comment=the rings" "[]string" "ok" "bell\a"

\* a struct below the top level with a sequence of strings and a sequence of structs
Box == StructV(<<121, 97, 109, 108, 99, 46, 66, 111, 120>>, <<  \* "yamlc.Box"
    Fld(<<76, 105, 100, 115>>, <<108, 105, 100, 115>>, <<99, 111, 109, 109, 101, 110, 116, 61, 116, 104, 101, 32, 108, 105, 100, 115>>, <<>>, SliceV(<<91, 93, 115, 116, 114, 105, 110, 103>>, <<StringV(<<108, 49>>), StringV(<<108, 50>>)>>)),  \* "Lids" "lids" "comment=the lids" "[]string" "l1" "l2"
    Fld(<<74, 111, 98, 115>>, <<106, 111, 98, 115>>, <<>>, <<>>, SliceV(<<91, 93, 42, 121, 97, 109, 108, 99, 46, 87, 111, 114, 107, 69, 120, 112, 101, 114, 105, 101, 110, 99, 101>>, <<Company(1), Company(2)>>))>>)  \* "Jobs" "jobs" "[]*yamlc.WorkExperience"

Depot == StructV(<<121, 97, 109, 108, 99, 46, 68, 101, 112, 111, 116>>, <<  \* "yamlc.Depot"
    Fld(<<83, 105, 116, 101>>, <<115, 105, 116, 101>>, <<99, 111, 109, 109, 101, 110, 116, 61, 116, 104, 101, 32, 115, 105, 116, 101>>, <<>>, StringV(<<110, 111, 114, 116, 104>>)),  \* "Site" "site" "comment=the site" "north"
    Fld(<<66, 111, 120>>, <<98, 111, 120>>, <<99, 111, 109, 109, 101, 110, 116, 61, 116, 104, 101, 32, 98, 111, 120>>, <<>>, PtrV(Box))>>)  \* "Box" "box" "comment=the box"

Values == <<NilValue,
            NilPtrV(<<121, 97, 109, 108, 99, 46, 80, 101, 114, 115, 111, 110>>),  \* "yamlc.Person"
            PtrV(Tesc2),
            PtrV(Person),
            Plain,
            PtrV(Single(<<111, 107>>)),  \* "ok"
            PtrV(Single(<<98, 101, 108, 108, 7>>)),  \* "bell\a"
            PtrV(Single(<<97, 13>>)),  \* "a\r"
            Tagged,
            PtrV(Single(<<97, 35, 98>>)),  \* "a#b"
            PtrV(Single(<<115, 101, 101, 32, 35, 49>>)),  \* "see #1"
            PtrV(Server),
            PtrV(Fleet),
            PtrV(Crew),
            PtrV(Vault),
            PtrV(Chimes),
            PtrV(Depot)>>
          \o [n \in 1..(MaxItems + 1) |-> PtrV(User(n - 1))]

\* the override maps passed to WithComment
Overrides == <<CommentMap(<<[k |-> <<110, 97, 109, 101>>, v |-> <<111, 118, 101, 114, 114, 105, 100, 101, 10, 110, 97, 109, 101>>], [k |-> <<102, 105, 114, 115, 116>>, v |-> <<111, 118, 101, 114, 114, 105, 100, 101, 32, 102, 105, 114, 115, 116>>],  \* "name" "override\nname" "first" "override first"
                            [k |-> <<97, 100, 100, 114, 101, 115, 115, 46, 115, 116, 114, 101, 101, 116>>, v |-> <<111, 118, 101, 114, 114, 105, 100, 101, 32, 115, 116, 114, 101, 101, 116>>],  \* "address.street" "override street"
                            [k |-> <<119, 111, 114, 107, 69, 120, 112, 101, 114, 105, 101, 110, 99, 101, 46, 99, 111, 109, 112, 97, 110, 121>>, v |-> <<111, 118, 101, 114, 114, 105, 100, 101, 32, 101, 109, 112, 108, 111, 121, 101, 114>>]>>),  \* "workExperience.company" "override employer"
               CommentMap(<<[k |-> <<110, 97, 109, 101>>, v |-> <<115, 101, 99, 111, 110, 100, 32, 110, 97, 109, 101>>], [k |-> <<115, 101, 99, 111, 110, 100>>, v |-> <<>>],  \* "name" "second name" "second"
                            [k |-> <<97, 100, 100, 114, 101, 115, 115, 46, 99, 105, 116, 121>>, v |-> <<111, 118, 101, 114, 114, 105, 100, 101, 32, 99, 105, 116, 121>>]>>),  \* "address.city" "override city"
               CommentMap(<<[k |-> <<116, 104, 105, 114, 100>>, v |-> <<108, 97, 116, 101>>]>>)>>  \* "third" "late"

WithCommentArg(j) == Overrides[j]

\* the options of a call: WithStyle(style) unless style is NoStyle, then the
\* first n override maps, each by WithComment
NoStyle == 0 - 2

OptsOf(style, n) == (IF style = NoStyle THEN <<>> ELSE <<WithStyle(style)>>) \o [i \in 1..n |-> WithComment(WithCommentArg(i))]

----------------------------------------------------------------------------
(* --------------------- generation at the inputs ---------------------- *)

\* the Options with the style s and the first n override maps
OptionsAt(s, n) == [Style |-> s, Comments |-> [j \in 1..n |-> WithCommentArg(j)]]

\* GenWith at the inputs of the model, evaluated once
Rendered == [i \in 1..Len(Values), s \in StyleArgs, n \in 0..MaxOverrides |-> GenWith(Values[i], OptionsAt(s, n))]

GenAt(i, options) ==
    LET n == Len(options.Comments) IN
    IF options.Style \in StyleArgs /\ n <= MaxOverrides /\ options = OptionsAt(options.Style, n)
    THEN Rendered[i, options.Style, n]
    ELSE GenWith(Values[i], options)

\* the texts Rendered holds
RenderedTexts == {Rendered[k].data : k \in DOMAIN Rendered}

\* ValidateYAML at the texts of Rendered, evaluated once
Verdicts == [d \in RenderedTexts |-> ValidateYAML(d)]

\* ValidateYAML(data), looked up in Verdicts where it is there
ValidateYAMLAt(data) == IF data \in RenderedTexts THEN Verdicts[data] ELSE ValidateYAML(data)

\* Gen(Values[i], opts...) when GlobalCommentStyle = global
Gen(global, i, opts) == GenAt(i, NewOptions(global, opts))

GenWithValidation(global, i, opts) ==
    LET v == Values[i] IN
    IF v.kind = "invalid" THEN RetErr("input value cannot be nil")
    ELSE IF v.kind = "ptr" /\ v.isNil THEN RetErr("input pointer cannot be nil")
    ELSE IF ValidateOptions([isNil |-> FALSE, o |-> NewOptions(global, opts)]) # "" THEN RetErr("invalid options")
    ELSE LET g == Gen(global, i, opts) IN
         IF g.err # "" THEN RetErr(g.err)
         ELSE LET c == ValidateGeneratedContent(g.data) IN
              IF c[1] # "" THEN RetErr("generated content validation failed") ELSE RetOk(c[2])

\* Write(w, v, opts...): the error; w is "nil", or how w.Write answers: "ok",
\* "fail" (an error) or "short" (fewer bytes than given, no error)
Write(global, w, i, opts) ==
    IF w = "nil" THEN "writer cannot be nil"
    ELSE LET g == Gen(global, i, opts) IN
         IF g.err # "" THEN g.err
         ELSE IF w = "fail" THEN "failed to write data"
         ELSE IF w = "short" THEN "incomplete write"
         ELSE ""

\* the errors Write returns after it has called w.Write
AfterWrite == {"", "failed to write data", "incomplete write"}

\* WriteFile without the defer: the file is closed on the path without error
\* only
WriteFileLeaky(global, filename, created, w, i, opts) ==
    IF filename = <<>> THEN [err |-> "filename cannot be empty", file |-> "untouched", sys |-> <<>>]
    ELSE IF ~created THEN [err |-> "failed to create file", file |-> "untouched", sys |-> <<>>]
    ELSE LET e == Write(global, w, i, opts) IN
         [err |-> e,
          file |-> IF e = "" THEN "written" ELSE IF e = "incomplete write" THEN "partial" ELSE "truncated",
          sys |-> <<"open">> \o (IF e \in AfterWrite THEN <<"write">> ELSE <<>>)
                            \o (IF e = "" THEN <<"close">> ELSE <<>>)]

\* WriteFile(filename, v, opts...): the error, what the call did to the
\* file: "untouched", "truncated" (created or emptied by os.Create, nothing
\* written), "partial" or "written", and sys, the calls made on the file in
\* their order: "open" (os.Create succeeded), "write" (file.Write called by
\* Write), "close" (the deferred file.Close, which runs on every return after
\* the defer statement); created tells whether os.Create succeeds
WriteFile(global, filename, created, w, i, opts) ==
    IF filename = <<>> THEN [err |-> "filename cannot be empty", file |-> "untouched", sys |-> <<>>]
    ELSE IF ~created THEN [err |-> "failed to create file", file |-> "untouched", sys |-> <<>>]
    ELSE LET e == Write(global, w, i, opts) IN
         [err |-> e,
          file |-> IF e = "" THEN "written" ELSE IF e = "incomplete write" THEN "partial" ELSE "truncated",
          sys |-> <<"open">> \o (IF e \in AfterWrite THEN <<"write">> ELSE <<>>) \o <<"close">>]

----------------------------------------------------------------------------
(* ------------------------- inputs of the calls ----------------------- *)

UpperRune(r) == IF r >= 97 /\ r <= 122 THEN r - 32 ELSE r

ToUpper(s) == [i \in 1..Len(s) |-> UpperRune(s[i])]

\* the first letter in upper case
Title(s) == [i \in 1..Len(s) |-> IF i = 1 THEN UpperRune(s[i]) ELSE s[i]]

\* upper case at the even positions
Mixed(s) == [i \in 1..Len(s) |-> IF i % 2 = 0 THEN UpperRune(s[i]) ELSE s[i]]

\* the canonical names in lower, upper, title and mixed case, and strings
\* that name no style
StyleStrings == UNION {{GetStyleString(n), ToUpper(GetStyleString(n)), Title(GetStyleString(n)),
                        Mixed(GetStyleString(n))} : n \in 0..StyleSeparate}
                \cup {<<>>, <<98, 111, 103, 117, 115>>, <<116, 111, 112, 32>>, <<32, 100, 111, 99>>, <<115, 109, 97, 114, 116, 120>>, <<116, 111>>}  \* "bogus" "top " " doc" "smartx" "to"

\* override maps ValidateOptions has to judge
LongComment(r, n) == CommentMap(<<[k |-> <<110, 97, 109, 101>>, v |-> [i \in 1..n |-> r]]>>)  \* "name"

CommentLists == {<<>>, <<Overrides[1]>>, <<Overrides[1], Overrides[2]>>, <<NilMap>>, <<Overrides[1], NilMap>>,
                 <<CommentMap(<<>>)>>,
                 <<CommentMap(<<[k |-> <<>>, v |-> <<99>>]>>)>>,  \* "c"
                 <<CommentMap(<<[k |-> <<110, 97, 109, 101>>, v |-> <<108, 105, 110, 101, 10, 98, 114, 101, 97, 107, 9, 97, 110, 100, 13, 114, 101, 116, 117, 114, 110>>]>>)>>,  \* "name" "line\nbreak\tand\rreturn"
                 <<CommentMap(<<[k |-> <<110, 97, 109, 101>>, v |-> <<98, 101, 108, 108, 7>>]>>)>>,  \* "name" "bell\a"
                 <<CommentMap(<<[k |-> <<110, 97, 109, 101>>, v |-> <<100, 101, 108, 127>>]>>)>>,  \* "name" "del\u007f"
                 <<CommentMap(<<[k |-> <<110, 97, 109, 101>>, v |-> <<99, 49, 133>>]>>)>>,  \* "name" "c1\u0085"
                 <<LongComment(97, MaxCommentLen)>>,
                 <<LongComment(97, MaxCommentLen + 1)>>,
                 <<LongComment(20013, MaxCommentLen \div 3)>>,
                 <<LongComment(20013, MaxCommentLen \div 3 + 1)>>,
                 <<LongComment(20013, MaxCommentLen)>>,
                 <<LongComment(20013, MaxCommentLen + 1)>>}

OptionPointers == {[isNil |-> TRUE]} \cup {[isNil |-> FALSE, o |-> [Style |-> s, Comments |-> c]] : s \in StyleArgs, c \in CommentLists}

\* texts handed to the validators
Documents == {Utf8Encode(<<97, 58, 32, 49, 10>>), Utf8Encode(<<97, 58, 10, 32, 32, 98, 58, 32, 49, 10, 32, 32, 99, 58, 32, 50, 10>>), Utf8Encode(<<97, 58, 10, 32, 32, 32, 32, 98, 58, 32, 49, 10>>),  \* "a: 1\n" "a:\n  b: 1\n  c: 2\n" "a:\n    b: 1\n"
              Utf8Encode(<<32, 97, 58, 32, 49, 10>>), Utf8Encode(<<97, 58, 32, 49, 13, 10, 98, 58, 32, 50, 10>>), Utf8Encode(<<97, 58, 32, 49, 10, 97, 58, 32, 50, 10>>),  \* " a: 1\n" "a: 1\r\nb: 2\n" "a: 1\na: 2\n"
              Utf8Encode(<<97, 58, 32, 98, 58, 32, 99, 10>>), Utf8Encode(<<107, 58, 10, 32, 32, 45, 32, 120, 10, 32, 32, 45, 32, 121, 10>>), Utf8Encode(<<58, 32, 118, 10>>),  \* "a: b: c\n" "k:\n  - x\n  - y\n" ": v\n"
              Utf8Encode(<<97, 58, 10, 32, 32, 98, 58, 10, 32, 32, 32, 32, 99, 58, 32, 49, 10>>), Utf8Encode(<<97, 58, 10, 32, 32, 98, 58, 32, 49, 10, 99, 58, 10, 32, 32, 100, 58, 32, 50, 10>>),  \* "a:\n  b:\n    c: 1\n" "a:\n  b: 1\nc:\n  d: 2\n"
              Utf8Encode(<<97, 91, 48, 93, 58, 32, 49, 10>>), Utf8Encode(<<35, 32, 111, 110, 108, 121, 32, 97, 32, 99, 111, 109, 109, 101, 110, 116, 10>>), Utf8Encode(<<21517, 58, 32, 20540, 10>>),
              Utf8Encode(<<32, 32, 32, 32, 97, 58, 32, 49, 10, 32, 32, 32, 32, 98, 58, 32, 50, 10>>), Utf8Encode(<<32, 32, 97, 58, 32, 49, 10, 10, 32, 32, 35, 32, 99, 10, 32, 32, 98, 58, 32, 50, 10>>),  \* "    a: 1\n    b: 2\n" "  a: 1\n\n  # c\n  b: 2\n"
              <<97, 58, 32, 255, 10>>, <<>>}

\* the struct a value of Values is or points to; values that are none are left out
StructValues == {i \in 1..Len(Values) : Values[i].kind = "struct" \/ (Values[i].kind = "ptr" /\ ~Values[i].isNil)}

StructOf(i) == IF Values[i].kind = "ptr" THEN Values[i].elem ELSE Values[i]

Writers == {"nil", "ok", "fail", "short"}

\* the words needsQuoting reserves, in lower case
LowerKeywords == {<<116, 114, 117, 101>>, <<102, 97, 108, 115, 101>>, <<121, 101, 115>>, <<110, 111>>, <<111, 110>>, <<111, 102, 102>>, <<110, 117, 108, 108>>, <<110, 105, 108>>}  \* "true" "false" "yes" "no" "on" "off" "null" "nil"

\* the characters tried inside and as strings: those of YamlSpecial, and
\* other punctuation
Punctuation == <<58, 35, 123, 125, 91, 93, 38, 42, 33, 124, 62, 34, 39, 37, 63, 64, 96, 126, 44, 59, 61, 40, 41, 60, 94, 36, 95, 47, 46>>

\* the strings passed to generateString: empty, the reserved words in four
\* cases, one-character strings and strings around one character, numbers and
\* near-numbers, signs, spaces, line breaks, control characters, plain words
StringArgs == {<<>>, <<126>>}  \* "~"
              \cup UNION {{w, Title(w), ToUpper(w), Mixed(w)} : w \in LowerKeywords}
              \cup {<<Punctuation[i]>> : i \in 1..Len(Punctuation)}
              \cup {<<97>> \o <<Punctuation[i]>> \o <<98>> : i \in 1..Len(Punctuation)}  \* "a" "b"
              \cup {<<51, 48>>, <<45, 49>>, <<43, 49>>, <<49, 101, 53>>, <<49, 46, 53>>, <<101>>, <<69, 46>>, <<49, 45, 50>>, <<48, 120, 49, 70>>, <<118, 49>>, <<49, 32, 50>>,  \* "30" "-1" "+1" "1e5" "1.5" "e" "E." "1-2" "0x1F" "v1" "1 2"
                    <<1635>>, <<1635, 1633>>, <<1635, 49>>, <<65297>>, <<45, 1635>>}  \* "\u0663" "\u0663\u0661" "\u06631" "\uff11" "-\u0663"
              \cup {<<45>>, <<43>>, <<45, 97>>, <<43, 97>>, <<97, 45, 98>>, <<97, 43, 98>>, <<32, 97>>, <<97, 32>>, <<32>>, <<97, 32, 98>>, <<9, 97>>, <<97, 9>>}  \* "-" "+" "-a" "+a" "a-b" "a+b" " a" "a " " " "a b" "\ta" "a\t"
              \cup {<<97, 10, 98>>, <<10>>, <<97, 13, 98>>, <<97, 9, 98>>, <<98, 101, 108, 108, 7>>, <<127>>, <<101, 115, 99, 27, 91, 48, 109>>}  \* "a\nb" "\n" "a\rb" "a\tb" "bell\a" "\u007f" "esc\e[0m"
              \cup {<<97, 98, 99>>, <<104, 101, 108, 108, 111, 32, 119, 111, 114, 108, 100>>, <<24352, 19977>>, <<84, 114, 117, 101, 32, 115, 116, 111, 114, 121>>, <<110, 117, 108, 108, 97, 98, 108, 101>>, <<101, 120, 97, 109, 112, 108, 101, 46, 111, 114, 103>>}

FileNames == {<<>>, <<111, 117, 116, 46, 121, 97, 109, 108>>}  \* "out.yaml"

----------------------------------------------------------------------------
(* --------------------------- the calls ------------------------------- *)
(* One call at a time: a call is made when pc = "idle", leaves its          *)
(* arguments in call and its results, a record, in ret, and Return takes    *)
(* the caller                                                               *)
(* back. lastSet remembers the argument of the latest SetGlobalStyle.       *)

NoCall == [op |-> "none"]

\* the result of a call without results, and of no call
Nothing == [void |-> TRUE]

Init == /\ GlobalCommentStyle = StyleTop
        /\ lastSet = <<>>
        /\ pc = "idle"
        /\ call = NoCall
        /\ ret = Nothing

\* a call that only reads the package state
Returns(c, r) == /\ pc = "idle"
                 /\ pc' = "returned"
                 /\ call' = c
                 /\ ret' = r
                 /\ UNCHANGED <<GlobalCommentStyle, lastSet>>

SetGlobalStyle == \E style \in StyleArgs :
    /\ pc = "idle"
    /\ GlobalCommentStyle' = style
    /\ lastSet' = <<style>>
    /\ pc' = "returned"
    /\ call' = [op |-> "SetGlobalStyle", style |-> style]
    /\ ret' = Nothing

\* a call that reads GlobalCommentStyle: r[global] is what it returns when it
\* reads global
ReturnsAt(c, r) == Returns(c, r[GlobalCommentStyle])

GetStyle == Returns([op |-> "GetStyle"], [style |-> GlobalCommentStyle])

CallGetAllStyle == Returns([op |-> "GetAllStyle"], [styles |-> GetAllStyle])

CallGetStyleString == \E style \in StyleArgs : Returns([op |-> "GetStyleString", style |-> style], [name |-> GetStyleString(style)])

CallGetStyleFromString == \E s \in StyleStrings : Returns([op |-> "GetStyleFromString", s |-> s], [style |-> GetStyleFromString(s)])

CallGen == \E i \in 1..Len(Values), style \in {NoStyle} \cup StyleArgs, n \in 0..MaxOverrides :
    ReturnsAt([op |-> "Gen", v |-> i, style |-> style, n |-> n],
              [global \in StyleArgs |-> Gen(global, i, OptsOf(style, n))])

CallGenWithValidation == \E i \in 1..Len(Values), style \in {NoStyle} \cup StyleArgs, n \in 0..MaxOverrides :
    ReturnsAt([op |-> "GenWithValidation", v |-> i, style |-> style, n |-> n],
              [global \in StyleArgs |-> GenWithValidation(global, i, OptsOf(style, n))])

CallWrite == \E w \in Writers, i \in 1..Len(Values), style \in {NoStyle, StyleInline} :
    ReturnsAt([op |-> "Write", w |-> w, v |-> i, style |-> style, n |-> 0],
              [global \in StyleArgs |-> [err |-> Write(global, w, i, OptsOf(style, 0))]])

CallWriteFile == \E f \in FileNames, created \in BOOLEAN, w \in Writers \ {"nil"}, i \in 1..Len(Values), style \in {NoStyle, StyleInline} :
    ReturnsAt([op |-> "WriteFile", filename |-> f, created |-> created, w |-> w, v |-> i, style |-> style, n |-> 0],
              [global \in StyleArgs |-> WriteFile(global, f, created, w, i, OptsOf(style, 0))])

CallValidateYAML == \E d \in Documents : Returns([op |-> "ValidateYAML", data |-> d], [err |-> ValidateYAML(d)])

CallValidateStructure == \E d \in Documents, cap \in AppendCaps :
    Returns([op |-> "ValidateStructure", data |-> d, cap |-> cap], [err |-> ValidateStructure(d, cap)])

\* ret: the error and the options after the call
CallValidateOptions == \E p \in OptionPointers :
    Returns([op |-> "ValidateOptions", options |-> p], [err |-> ValidateOptions(p), options |-> p])

\* ret: the error and data after the call
CallValidateGeneratedContent == \E d \in Documents :
    Returns([op |-> "ValidateGeneratedContent", data |-> d],
            [err |-> ValidateGeneratedContent(d)[1], data |-> ValidateGeneratedContent(d)[2]])

\* generateString on a string value; ret: the text and the error
CallGenerateString == \E s \in StringArgs :
    Returns([op |-> "generateString", s |-> s], [text |-> generateString(StringV(s)).s, err |-> generateString(StringV(s)).err])

\* collectFieldInfo on a struct, at the top of a generation with options
CallCollectFieldInfo == \E i \in StructValues, style \in {NoStyle, StyleSeparate}, n \in 0..MaxOverrides :
    ReturnsAt([op |-> "collectFieldInfo", v |-> i, style |-> style, n |-> n],
              [global \in StyleArgs |-> [fields |-> collectFieldInfo(StructOf(i), <<>>, NewOptions(global, OptsOf(style, n)))]])

Return == /\ pc = "returned"
          /\ pc' = "idle"
          /\ call' = NoCall
          /\ ret' = Nothing
          /\ UNCHANGED <<GlobalCommentStyle, lastSet>>

\* GenWithValidation up to the return of ValidateOptions, when it reads
\* global: where it stands then, and the style it has validated
validated(global, i, opts) ==
    LET v == Values[i] IN
    IF v.kind = "invalid" THEN [pc |-> "returned", ret |-> RetErr("input value cannot be nil")]
    ELSE IF v.kind = "ptr" /\ v.isNil THEN [pc |-> "returned", ret |-> RetErr("input pointer cannot be nil")]
    ELSE IF ValidateOptions([isNil |-> FALSE, o |-> NewOptions(global, opts)]) # "" THEN [pc |-> "returned", ret |-> RetErr("invalid options")]
    ELSE [pc |-> "validated", ret |-> [style |-> NewOptions(global, opts).Style]]

\* GenWithValidation from the call of Gen on, when Gen reads global: what it
\* returns, and the style Gen has rendered with
generated(global, i, opts) ==
    LET g == Gen(global, i, opts)
        r == IF g.err # "" THEN RetErr(g.err)
             ELSE LET c == ValidateGeneratedContent(g.data) IN
                  IF c[1] # "" THEN RetErr("generated content validation failed") ELSE RetOk(c[2])
    IN [data |-> r.data, isNil |-> r.isNil, err |-> r.err, rendered |-> NewOptions(global, opts).Style]

\* the first step of a call of GenWithValidation that runs beside other goroutines
ValidatesAt(c, r) == /\ pc = "idle"
                     /\ pc' = r[GlobalCommentStyle].pc
                     /\ call' = c
                     /\ ret' = r[GlobalCommentStyle].ret
                     /\ UNCHANGED <<GlobalCommentStyle, lastSet>>

GenWithValidationValidates == \E i \in 1..Len(Values), style \in {NoStyle} \cup StyleArgs, n \in 0..MaxOverrides :
    ValidatesAt([op |-> "GenWithValidation", v |-> i, style |-> style, n |-> n],
                [global \in StyleArgs |-> validated(global, i, OptsOf(style, n))])

\* its second step: Gen reads GlobalCommentStyle again
GeneratesAt(c, r) == /\ pc = "validated"
                     /\ call = c
                     /\ pc' = "returned"
                     /\ ret' = [data |-> r[GlobalCommentStyle].data, isNil |-> r[GlobalCommentStyle].isNil, err |-> r[GlobalCommentStyle].err,
                                rendered |-> r[GlobalCommentStyle].rendered, validated |-> ret.style]
                     /\ UNCHANGED <<GlobalCommentStyle, lastSet, call>>

GenWithValidationGenerates == \E i \in 1..Len(Values), style \in {NoStyle} \cup StyleArgs, n \in 0..MaxOverrides :
    GeneratesAt([op |-> "GenWithValidation", v |-> i, style |-> style, n |-> n],
                [global \in StyleArgs |-> generated(global, i, OptsOf(style, n))])

\* SetGlobalStyle in another goroutine, between the two steps
SetGlobalStyleMeanwhile == \E style \in StyleArgs :
    /\ pc = "validated"
    /\ GlobalCommentStyle' = style
    /\ lastSet' = <<style>>
    /\ UNCHANGED <<pc, call, ret>>

\* a sequence of n structs rendered as the value of a field of the top level
SliceAt(n, style) == generateSlice(Items(<<91, 93, 42, 121, 97, 109, 108, 99, 46, 87, 111, 114, 107, 69, 120, 112, 101, 114, 105, 101, 110, 99, 101>>, n, Company), <<106, 111, 98, 115>>, 1, OptionsAt(style, 0))  \* "[]*yamlc.WorkExperience" "jobs"

CallGenerateSlice == \E n \in 1..(MaxItems + 1), style \in StyleArgs \ {StyleMinimal} :
    Returns([op |-> "generateSlice", n |-> n, style |-> style], [text |-> SliceAt(n, style).s, err |-> SliceAt(n, style).err])

Next == \/ SetGlobalStyle
        \/ GetStyle
        \/ CallGetAllStyle
        \/ CallGetStyleString
        \/ CallGetStyleFromString
        \/ CallGen
        \/ CallGenWithValidation
        \/ CallWrite
        \/ CallWriteFile
        \/ CallValidateYAML
        \/ CallValidateStructure
        \/ CallValidateOptions
        \/ CallValidateGeneratedContent
        \/ CallCollectFieldInfo
        \/ CallGenerateString
        \/ CallGenerateSlice
        \/ Return

Spec == Init /\ [][Next]_vars

\* a call of GenWithValidation beside goroutines that call SetGlobalStyle
NextConcurrent == \/ SetGlobalStyle
                  \/ GenWithValidationValidates
                  \/ SetGlobalStyleMeanwhile
                  \/ GenWithValidationGenerates
                  \/ Return

SpecConcurrent == Init /\ [][NextConcurrent]_vars

----------------------------------------------------------------------------
(* ------------------------------ properties --------------------------- *)

\* the call op has returned
Returned(op) == pc = "returned" /\ call.op = op

\* Gen or GenWithValidation has returned
Generation == pc = "returned" /\ call.op \in {"Gen", "GenWithValidation"}

\* the value of the call is the nil interface or a nil pointer
NilInput == Values[call.v].kind = "invalid" \/ (Values[call.v].kind = "ptr" /\ Values[call.v].isNil)

\* the style the call generates with
EffectiveStyle == IF call.style = NoStyle THEN GlobalCommentStyle ELSE call.style

\* C1: Gen returns an error and no bytes when the value is nil or a nil
\* pointer, in every style, whether the style comes from WithStyle or from
\* the global default. Gen((*Person)(nil)) in StyleMinimal returns "null\n".
C1_NilInputFails == (Returned("Gen") /\ NilInput) => (ret.err # "" /\ ret.isNil)

C3_ReturnedBytesPassStructure ==
    (Returned("Gen") /\ ret.err = "") => \A cap \in AppendCaps : ValidateStructure(ret.data, cap) = ""

\* C4: Gen and GenWithValidation return either an error and a nil slice, or
\* bytes and a nil error.
C4_AllOrNothing == Generation => /\ ret.err # "" <=> ret.isNil
                                 /\ ret.isNil => ret.data = <<>>

\* a text was built and then rejected by ValidateYAML: only the error is returned
C4_Witness == /\ Generation
              /\ Values[call.v] = Plain
              /\ EffectiveStyle = StyleTop
              /\ ret.err = "generated YAML validation failed"
              /\ ret.isNil

\* the override maps of the call, in WithComment order
CallComments == [j \in 1..call.n |-> WithCommentArg(j)]

\* the first override map that has an entry for path: its index, 0 if none
FirstMapWith(path, comments) ==
    LET has == SelectSeq(Indices(comments), LAMBDA i : \E j \in 1..Len(comments[i].m) : comments[i].m[j].k = path)
    IN IF Len(has) = 0 THEN 0 ELSE has[1]

\* the comment the priority list gives the field f at the dotted path: the
\* override entry, the comment= part of the yamlc tag, the comment tag, the
\* comment= part of the yaml tag, the empty string
FirstComment(f, path, comments) ==
    IF FirstMapWith(path, comments) # 0
    THEN LET m == comments[FirstMapWith(path, comments)].m
         IN m[CHOOSE j \in 1..Len(m) : m[j].k = path].v
    ELSE IF TagComment(f.yamlc)[1] THEN TagComment(f.yamlc)[2]
    ELSE IF f.comment # <<>> THEN f.comment
    ELSE IF TagComment(f.yaml)[1] THEN TagComment(f.yaml)[2]
    ELSE <<>>

RECURSIVE Resolve(_, _, _)
\* val with the comment of every rendered field, at every depth, settled
\* ahead by the priority list and left in its comment tag, the only tag
\* with a comment
Resolve(val, path, comments) ==
    CASE val.kind = "struct" ->
             [val EXCEPT !.fields = [k \in 1..Len(val.fields) |->
                 LET f == val.fields[k]
                     p == buildFieldPath(path, getFieldName(f))
                 IN IF ~IsExported(f) \/ getFieldName(f) = <<45>> THEN f  \* "-"
                    ELSE Fld(f.name, getFieldName(f), <<>>, FirstComment(f, p, comments), Resolve(f.val, p, comments))]]
      [] val.kind = "ptr" -> IF val.isNil THEN val ELSE [val EXCEPT !.elem = Resolve(val.elem, path, comments)]
      [] val.kind = "slice" -> [val EXCEPT !.items = [k \in 1..Len(val.items) |-> Resolve(val.items[k], path, comments)]]
      [] val.kind = "map" ->
             [val EXCEPT !.entries = [k \in 1..Len(val.entries) |->
                 [val.entries[k] EXCEPT !.v = Resolve(val.entries[k].v, path, comments)]]]
      [] OTHER -> val

\* C5: in every style but StyleMinimal the comment emitted for a field, at
\* every depth and wherever it is emitted, is the one the priority list
\* gives: Gen returns what it returns, without overrides, for the value whose
\* comments are settled ahead by the list. The banner of StyleSeparate takes
\* the comments of nested fields from the tags alone.
C5_CommentPriority ==
    (Returned("Gen") /\ EffectiveStyle # StyleMinimal /\ ~NilInput)
        => ret = GenWith(Resolve(Values[call.v], <<>>, CallComments), [Style |-> EffectiveStyle, Comments |-> <<>>])

\* the fields of the struct collectFieldInfo was called on
CallFields == StructOf(call.v).fields

\* the place of the k-th descriptor's field in the struct declaration, 0 if none
Declared(k) ==
    LET at == SelectSeq(Indices(CallFields), LAMBDA j : CallFields[j] = ret.fields[k].FieldType)
    IN IF Len(at) = 0 THEN 0 ELSE at[1]

\* C6: collectFieldInfo returns the descriptors in declaration order, none of
\* them for an unexported field or for a field whose yaml or yamlc tag is "-".
\* A field with yaml:"kept" yamlc:"-" gets the descriptor kept.
C6_CollectedInOrderWithoutIgnored ==
    Returned("collectFieldInfo") =>
        /\ \A k \in 1..Len(ret.fields) : Declared(k) # 0
        /\ \A k \in 1..(Len(ret.fields) - 1) : Declared(k) < Declared(k + 1)
        /\ \A k \in 1..Len(ret.fields) :
              LET f == ret.fields[k].FieldType IN IsExported(f) /\ f.yaml # <<45>> /\ f.yamlc # <<45>>  \* "-" "-"

\* C7: an exported field without a yaml and a yamlc tag gets a descriptor
\* under its lower-cased Go name. getFieldName answers "-" for it, and
\* collectFieldInfo drops it.
C7_UntaggedFieldKept ==
    Returned("collectFieldInfo") =>
        \A j \in 1..Len(CallFields) :
            (IsExported(CallFields[j]) /\ CallFields[j].yaml = <<>> /\ CallFields[j].yamlc = <<>>)
                => \E k \in 1..Len(ret.fields) : /\ ret.fields[k].FieldType = CallFields[j]
                                                 /\ ret.fields[k].Name = ToLower(CallFields[j].name)

\* x and y are the same character, or the two cases of one letter
SameLetter(x, y) == x = y \/ (x \in 65..90 /\ y = x + 32) \/ (y \in 65..90 /\ x = y + 32)

\* a and b are equal but for the case of their letters
EqualFold(a, b) == Len(a) = Len(b) /\ \A i \in 1..Len(a) : SameLetter(a[i], b[i])

\* C8: GetStyleFromString(GetStyleString(n)) = n for n in 0..10 and the eleven
\* names differ; GetStyleFromString(s) is the style whose name equals s but
\* for case, StyleSmart if there is none; GetStyleString of an ordinal
\* outside 0..10 is "smart".
C8_StyleCodec ==
    /\ Returned("GetStyleString") =>
          IF call.style \in 0..StyleSeparate
          THEN /\ GetStyleFromString(ret.name) = call.style
               /\ \A m \in 0..StyleSeparate : m # call.style => GetStyleString(m) # ret.name
          ELSE ret.name = <<115, 109, 97, 114, 116>>  \* "smart"
    /\ Returned("GetStyleFromString") =>
          IF \E n \in 0..StyleSeparate : EqualFold(GetStyleString(n), call.s)
          THEN EqualFold(GetStyleString(ret.style), call.s) /\ ret.style \in 0..StyleSeparate
          ELSE ret.style = StyleSmart

\* a name in mixed case is found
C8_Witness == Returned("GetStyleFromString") /\ call.s = Mixed(<<115, 101, 99, 116, 105, 111, 110, 101, 100>>) /\ ret.style = StyleSectioned  \* "sectioned"

\* what the claim C9 lists: nil options, a style outside 0..10, a nil map, an
\* empty path, a comment of more than 1000 characters or with a control
\* character other than newline, tab and carriage return
Listed(p) ==
    \/ p.isNil
    \/ p.o.Style \notin 0..StyleSeparate
    \/ \E i \in 1..Len(p.o.Comments) :
          \/ p.o.Comments[i].isNil
          \/ \E j \in 1..Len(p.o.Comments[i].m) :
                LET e == p.o.Comments[i].m[j] IN
                \/ e.k = <<>>
                \/ Len(e.v) > MaxCommentLen
                \/ \E c \in 1..Len(e.v) : IsControl(e.v[c]) /\ e.v[c] \notin {10, 9, 13}

\* C9: ValidateOptions returns an error exactly in the listed cases and
\* leaves the options as they are. len(comment) counts bytes: a comment of
\* 334 characters of three bytes each is refused.
C9_ValidateOptionsExact ==
    Returned("ValidateOptions") => /\ ret.err # "" <=> Listed(call.options)
                                   /\ ret.options = call.options

\* the argument of the latest SetGlobalStyle, StyleTop if there was none
LastStyle == IF lastSet = <<>> THEN StyleTop ELSE lastSet[1]

\* C10: the global style is the argument of the latest SetGlobalStyle
\* (StyleTop if none) whatever calls were made since, GetStyle returns it, Gen
\* without WithStyle renders as with WithStyle of it, and Gen with
\* WithStyle(s) renders the same whatever the global style is.
C10_LastWriterWins ==
    /\ GlobalCommentStyle = LastStyle
    /\ Returned("GetStyle") => ret.style = LastStyle
    /\ Returned("Gen") =>
          \A g \in StyleArgs :
              ret = Gen(g, call.v, OptsOf(IF call.style = NoStyle THEN LastStyle ELSE call.style, call.n))

\* Gen without WithStyle after SetGlobalStyle(StyleInline)
C10_Witness == /\ Returned("Gen")
               /\ call.style = NoStyle
               /\ lastSet = <<StyleInline>>
               /\ Values[call.v] = PtrV(Person)
               /\ ret.err = ""

\* the handles open after the calls of sys: "open" adds one, "close" takes
\* one away
OpenAfter(sys) == Cardinality({k \in 1..Len(sys) : sys[k] = "open"})
                  - Cardinality({k \in 1..Len(sys) : sys[k] = "close"})

\* C11: when WriteFile returns, every file it opened has been closed, whether
\* it returns nil, the error of the generation, a write error or a short
\* write, and nothing follows the close; with an empty filename it returns an
\* error and has opened no file.
C11_FileClosedOnReturn ==
    Returned("WriteFile") =>
        /\ OpenAfter(ret.sys) = 0
        /\ (ret.sys # <<>> => ret.sys[1] = "open" /\ ret.sys[Len(ret.sys)] = "close")
        /\ (call.filename = <<>> => ret.err # "" /\ ret.sys = <<>>)

C11_Witness ==
    /\ Returned("WriteFile") /\ call.filename # <<>> /\ call.created /\ call.w = "short"
    /\ ret.err = "incomplete write" /\ ret.sys = <<"open", "write", "close">>

\* a generation on a struct or a pointer to a struct
OnStruct == call.v \in StructValues

\* the lines of the returned text
RetLines == Split(Utf8Decode(ret.data), 10)

\* the descriptors of the top level of the value of the call
CallDescriptors == collectFieldInfo(StructOf(call.v), <<>>, NewOptions(GlobalCommentStyle, OptsOf(call.style, call.n)))

\* the text of line after the name of f and its colon
AfterName(line, f) == SubSeq(line, Len(f.Name) + 2, Len(line))

\* f is a scalar field: it has no children and is no sequence
IsLeaf(f) == ~f.HasChildren /\ f.Field.kind # "slice"

\* C12: in Top style every field of the top level has a line that starts with
\* its "name:"; a non-empty comment is the line "# comment" immediately
\* above that line; and the line of a scalar field holds the value and
\* nothing else, so the text of the next field starts on a line of its own.
C12_TopFieldsOnOwnLines ==
    (Returned("Gen") /\ OnStruct /\ EffectiveStyle = StyleTop /\ ret.err = "") =>
        \A k \in 1..Len(CallDescriptors) :
            LET f == CallDescriptors[k]
            IN \E l \in 1..Len(RetLines) :
                 /\ HasPrefix(RetLines[l], f.Name \o <<58>>)  \* ":"
                 /\ (f.Comment # <<>> => l > 1 /\ RetLines[l - 1] = <<35, 32>> \o f.Comment)  \* "# "
                 /\ (IsLeaf(f) => TrimSpace(AfterName(RetLines[l], f))
                                  = TrimSpace(generateValue(f.Field, f.FieldPath, 0, EmptyOptions).s))

\* the first of lines that starts with the name of f and ends with its
\* comment, 0 if there is none
CommentedLine(lines, f) ==
    LET at == SelectSeq(Indices(lines), LAMBDA l : /\ HasPrefix(lines[l], f.Name \o <<58>>)  \* ":"
                                                   /\ HasSuffix(lines[l], <<35, 32>> \o f.Comment))  \* "# "
    IN IF Len(at) = 0 THEN 0 ELSE at[1]

\* the text of the line of f in front of the "#" of its comment
BeforeComment(lines, f) ==
    LET line == lines[CommentedLine(lines, f)] IN SubSeq(line, 1, Len(line) - Len(f.Comment) - 2)

\* the display column of the "#" of the comment of f
CommentColumn(lines, f) == getDisplayWidth(BeforeComment(lines, f))

\* the alignment column of a level: the widest name with its colon, the
\* margin of 30 and two spaces
AlignColumn(fields) == calculateMaxFieldNameLen(fields) + 30 + 2

\* the "name: value" text of f ends before the alignment column
IsNarrow(lines, f, fields) == getDisplayWidth(TrimSpace(BeforeComment(lines, f))) < AlignColumn(fields)

\* the commented fields of a level
Commented(fields) == {k \in 1..Len(fields) : fields[k].Comment # <<>>}

\* C13: in Inline style every commented field of the top level has a line
\* "name: ... # comment", and the "#" of any two such fields whose
\* "name: value" text is narrower than the alignment column stand at the same
\* display column (wide characters count 2), whatever the kinds of the values.
C13_InlineCommentsAligned ==
    (Returned("Gen") /\ OnStruct /\ EffectiveStyle = StyleInline /\ ret.err = "") =>
        LET lines == RetLines
            fields == CallDescriptors
        IN /\ \A k \in Commented(fields) : CommentedLine(lines, fields[k]) # 0
           /\ \A j, k \in Commented(fields) :
                  (IsNarrow(lines, fields[j], fields) /\ IsNarrow(lines, fields[k], fields))
                      => CommentColumn(lines, fields[j]) = CommentColumn(lines, fields[k])

\* the styles whose comments stand on lines of their own
OwnLineStyles == {StyleTop, StyleVerbose, StyleSpaced, StyleGrouped}

\* the first of lines that starts with the name of f and a colon, 0 if none
KeyLine(lines, f) ==
    LET at == SelectSeq(Indices(lines), LAMBDA l : HasPrefix(lines[l], f.Name \o <<58>>))  \* ":"
    IN IF Len(at) = 0 THEN 0 ELSE at[1]

\* the lines of the block of f: those after its key line and before the next
\* line that is not blank and not indented
BlockLines(lines, f) ==
    LET key == KeyLine(lines, f)
        next == SelectSeq(Indices(lines), LAMBDA l : l > key /\ lines[l] # <<>> /\ lines[l][1] # 32)
        end == IF Len(next) = 0 THEN Len(lines) + 1 ELSE next[1]
    IN SelectSeq(Indices(lines), LAMBDA l : l > key /\ l < end)

\* the lines of the block of f that open an element of the sequence
DashLines(lines, f) == SelectSeq(BlockLines(lines, f), LAMBDA l : HasPrefix(TrimLeftSpace(lines[l]), <<45, 32>>))  \* "- "

\* the lines of the elements at index 1 and higher of the sequence f
LaterElementLines(lines, f) ==
    LET block == BlockLines(lines, f)
        dashes == DashLines(lines, f)
    IN IF Len(dashes) < 2 THEN {} ELSE {block[k] : k \in {j \in 1..Len(block) : block[j] >= dashes[2]}}

\* the sequence fields of a level whose elements are structs
StructSequences(fields) == {k \in 1..Len(fields) : fields[k].Field.kind = "slice" /\ fields[k].HasChildren}

\* C14: in Top, Verbose, Spaced and Grouped style the lines of the elements
\* at index 1 and higher of a sequence of structs contain no "#": comments
\* are written for element 0 only.
C14_CommentsOnFirstElementOnly ==
    (Returned("Gen") /\ OnStruct /\ EffectiveStyle \in OwnLineStyles /\ ret.err = "") =>
        LET lines == RetLines
            fields == CallDescriptors
        IN \A k \in StructSequences(fields) :
               /\ KeyLine(lines, fields[k]) # 0
               /\ Len(DashLines(lines, fields[k])) = LenV(fields[k].Field)
               /\ \A l \in LaterElementLines(lines, fields[k]) : ~Contains(lines[l], <<35>>)  \* "#"

\* the characters of line in front of position i
Before(line, i) == SubSeq(line, 1, i - 1)

\* position i of line lies inside a quoted scalar: an odd number of single
\* quotes, or of double quotes that no backslash escapes, stands in front of it
InQuotes(line, i) ==
    \/ Cardinality({j \in 1..(i - 1) : line[j] = 39}) % 2 = 1
    \/ Cardinality({j \in 1..(i - 1) : line[j] = 34 /\ (j = 1 \/ line[j - 1] # 92)}) % 2 = 1

\* the positions of line that hold a "#"
Hashes(line) == {i \in 1..Len(line) : line[i] = 35}

\* position i of line starts a comment: a "#" outside quotes at the start of
\* the line or after a space
StartsComment(line, i) == line[i] = 35 /\ ~InQuotes(line, i) /\ (i = 1 \/ line[i - 1] = 32)

ReservedLiterals == UNION {{w, Title(w), ToUpper(w)} : w \in {<<116, 114, 117, 101>>, <<102, 97, 108, 115, 101>>, <<121, 101, 115>>, <<110, 111>>, <<111, 110>>, <<111, 102, 102>>, <<110, 117, 108, 108>>, <<110, 105, 108>>}}  \* "true" "false" "yes" "no" "on" "off" "null" "nil"
                    \cup {<<126>>}  \* "~"

\* s looks numeric when digit tells the digits that count: an optional sign,
\* then only decimal digits, ".", "e" and "E", and a digit that counts
LooksNumeric(s, digit(_)) ==
    /\ s # <<>>
    /\ \A i \in 1..Len(s) : (i = 1 /\ s[i] \in {43, 45}) \/ IsDigit(s[i]) \/ s[i] \in {46, 101, 69}
    /\ \E i \in 1..Len(s) : digit(s[i])

AsciiDigit(r) == r >= 48 /\ r <= 57

\* the reasons to quote s, chars being the characters that force quotes and
\* digit the digits that count
MustQuote(s, chars, digit(_)) ==
    \/ s = <<>>
    \/ s \in ReservedLiterals
    \/ LooksNumeric(s, digit)
    \/ \E i \in 1..Len(s) : \E j \in 1..Len(chars) : s[i] = chars[j]
    \/ \E i \in 1..Len(s) : s[i] = 10
    \/ s[1] = 32 \/ s[Len(s)] = 32
    \/ s[1] \in {43, 45}

\* text is s between double quotes (with escapes for some of its characters)
DoubleQuoted(text) == Len(text) >= 2 /\ text[1] = 34 /\ text[Len(text)] = 34

\* C16: generateString emits the string between double quotes exactly when it
\* is empty, a reserved literal, numeric-looking, holds one of
\* : # { } [ ] & * ! | > " ' % ? @ ~ ` or a newline, starts or ends with a
\* space, or starts with + or -; every other string is emitted as it is.
C16_QuotedExactlyWhenListed ==
    (Returned("generateString") /\ ret.err = "") =>
        IF MustQuote(call.s, <<58, 35, 123, 125, 91, 93, 38, 42, 33, 124, 62, 34, 39, 37, 63, 64, 126, 96>>, IsDigit) THEN DoubleQuoted(ret.text) ELSE ret.text = call.s

\* a control character other than newline, tab and carriage return
BadControl(r) == IsControl(r) /\ r \notin {9, 10, 13}

\* C16, amended: generateString fails on a string with a control character
\* other than newline, tab and carriage return; otherwise it emits the string
\* between double quotes exactly when it is empty, a reserved literal,
\* numeric-looking with at least one of the digits 0-9, holds one of
\* : # { } [ ] & * ! | > " ' % ? @ ` (not ~) or a newline, starts or ends with
\* a space, or starts with + or -; every other string is emitted as it is.
C16_QuotedExactlyWhenTested ==
    Returned("generateString") =>
        /\ ret.err # "" <=> \E i \in 1..Len(call.s) : BadControl(call.s[i])
        /\ ret.err = "" =>
               IF MustQuote(call.s, <<58, 35, 123, 125, 91, 93, 38, 42, 33, 124, 62, 34, 39, 37, 63, 64, 96>>, AsciiDigit) THEN DoubleQuoted(ret.text) /\ ret.text # call.s
               ELSE ret.text = call.s

C16_Witness == Returned("generateString") /\ call.s = <<97, 126, 98>> /\ ret.err = "" /\ ret.text = <<97, 126, 98>>  \* "a~b" "a~b"

\* the lines of text that are neither blank nor comments, in their order
SignificantLines(text) == SelectSeq(Split(text, 10), LAMBDA line : ~IsBlankLine(line) /\ ~IsCommentLine(line))

\* the number of leading spaces of line
LeadingSpaces(line) == Len(line) - Len(TrimLeftSet(line, {32}))

\* the key of line is legal: a line with a colon that opens no sequence
\* element has a non-empty key that validateKeyName accepts
LegalKey(line) ==
    LET trimmed == TrimSpace(line)
    IN (ContainsAny(trimmed, <<58>>) /\ ~HasPrefix(trimmed, <<45>>)) =>  \* ":" "-"
           LET key == TrimSpace(SplitN2(trimmed, 58)[1]) IN key # <<>> /\ validateKeyName(key) = ""

\* line k is more than one level (two spaces) deeper than the line before it
Jumps(lines, k) == k > 1 /\ LeadingSpaces(lines[k]) > LeadingSpaces(lines[k - 1]) + 2

\* C17: ValidateStructure does not panic; it returns nil when every line that
\* is neither blank nor a comment has an even number of leading spaces, is at
\* most one level deeper than the line before it and has a legal key; and it
\* returns an error when such a line has an odd number of leading spaces or is
\* more than one level deeper than the line before it.
C17_StructureVerdict ==
    Returned("ValidateStructure") =>
        LET lines == SignificantLines(Utf8Decode(call.data))
            odd == \E k \in 1..Len(lines) : LeadingSpaces(lines[k]) % 2 = 1
            jump == \E k \in 1..Len(lines) : Jumps(lines, k)
        IN /\ ret.err # "panic"
           /\ (~odd /\ ~jump /\ \A k \in 1..Len(lines) : LegalKey(lines[k])) => ret.err = ""
           /\ (odd \/ jump) => ret.err # ""

\* the options of the generation of the call
CallOptions == NewOptions(GlobalCommentStyle, OptsOf(call.style, call.n))

\* the text of a level: the texts of its fields one after the other, and the
\* newline generateStruct adds
LevelText(fields, text(_)) == Concat([k \in 1..Len(fields) |-> text(fields[k])], 1, Len(fields)) \o <<10>>  \* "\n"

\* the text a generation in the style `style` emits for the field f of the
\* level fields
FieldTextIn(style, f, fields, options) ==
    generateFieldWithComment(f, 0, style, calculateMaxFieldNameLen(fields), [options EXCEPT !.Style = style]).s

\* C18: the text a generation in Smart style returns is, field by field, the
\* text a generation in Top style emits for the field when the field has
\* children, and the text a generation in Inline style emits for it, with the
\* alignment column of the level, when it has none.
C18_SmartIsTopOrInline ==
    (Returned("Gen") /\ OnStruct /\ EffectiveStyle = StyleSmart /\ ret.err = "" /\ Len(CallDescriptors) > 0) =>
        LET fields == CallDescriptors
            options == CallOptions
            text(f) == FieldTextIn(IF f.HasChildren THEN StyleTop ELSE StyleInline, f, fields, options)
        IN Utf8Decode(ret.data) = LevelText(fields, text)

\* C18, amended: the text a generation in Smart style returns is, field by
\* field, the Top layout of the field (its comment line and its "name:") when
\* the field has children, with the block below the field again in Smart
\* style, and the Inline layout of the field, with the alignment column of the
\* level, when it has none.
C18_SmartLayoutPerField ==
    (Returned("Gen") /\ OnStruct /\ EffectiveStyle = StyleSmart /\ ret.err = "" /\ Len(CallDescriptors) > 0) =>
        LET fields == CallDescriptors
            options == CallOptions
            text(f) == IF f.HasChildren THEN generateTopStyleField(f, <<>>, options).s
                       ELSE generateInlineStyleField(f, <<>>, calculateMaxFieldNameLen(fields), options).s
        IN Utf8Decode(ret.data) = LevelText(fields, text)

C18_Witness ==
    /\ Returned("Gen") /\ EffectiveStyle = StyleSmart /\ ret.err = ""
    /\ Values[call.v] = PtrV(User(MaxItems)) /\ call.n > 0
    /\ \E k \in 1..Len(CallDescriptors) : CallDescriptors[k].HasChildren
    /\ \E k \in 1..Len(CallDescriptors) : ~CallDescriptors[k].HasChildren

\* C19: in Spaced style a blank line stands between the "name:" line of
\* every field of the top level and the "name:" line of the next field,
\* whether the field is a scalar or has children, and the text does not end
\* with a blank line.
C19_SpacedBlankLineBetweenFields ==
    (Returned("Gen") /\ OnStruct /\ EffectiveStyle = StyleSpaced /\ ret.err = "") =>
        LET lines == RetLines
            fields == CallDescriptors
        IN /\ \A k \in 1..Len(fields) : KeyLine(lines, fields[k]) # 0
           /\ \A k \in 1..(Len(fields) - 1) :
                  \E l \in 1..Len(lines) : /\ KeyLine(lines, fields[k]) < l
                                           /\ l < KeyLine(lines, fields[k + 1])
                                           /\ IsBlankLine(lines[l])
           /\ ~HasSuffix(Utf8Decode(ret.data), <<10, 10>>)  \* "\n\n"

\* the first field of the run of fields without children that field k is in
RunStart(fields, k) == CHOOSE i \in 1..k : /\ \A j \in i..k : ~fields[j].HasChildren
                                           /\ (i = 1 \/ fields[i - 1].HasChildren)

\* the groups generateStructSectioned makes of the fields of a level
GroupsOf(fields) == sectionGroups(fields, 1, <<>>, TRUE)

\* C20: in Sectioned style a group that holds a field with children holds no
\* other field, the groups keep the fields in their declared order, and the
\* comment of every field without children is a line above the first
\* "name:" line of the run of such fields it stands in (and below the field
\* before the run), so that the comments of a run form one block above it.
C20_SectionedRunsAndBlocks ==
    (Returned("Gen") /\ OnStruct /\ EffectiveStyle = StyleSectioned /\ ret.err = "") =>
        LET lines == RetLines
            fields == CallDescriptors
            groups == GroupsOf(fields)
        IN /\ \A g \in 1..Len(groups) :
                  (\E j \in 1..Len(groups[g].Fields) : groups[g].Fields[j].HasChildren) => Len(groups[g].Fields) = 1
           /\ Concat([g \in 1..Len(groups) |-> groups[g].Fields], 1, Len(groups)) = fields
           /\ \A k \in 1..Len(fields) :
                  (~fields[k].HasChildren /\ fields[k].Comment # <<>>) =>
                      \E l \in 1..Len(lines) :
                          /\ lines[l] = <<35, 32>> \o fields[k].Comment  \* "# "
                          /\ l < KeyLine(lines, fields[RunStart(fields, k)])
                          /\ RunStart(fields, k) > 1 => l > KeyLine(lines, fields[RunStart(fields, k) - 1])

RECURSIVE DeepFields(_, _)
RECURSIVE Below(_, _)
\* the fields of the struct val and of every struct below it, each with its
\* depth, in the order of a walk that lists a field before the fields below it
DeepFields(val, depth) ==
    LET fs == collectFieldInfo(val, <<>>, EmptyOptions)
    IN Concat([k \in 1..Len(fs) |-> <<[name |-> fs[k].Name, depth |-> depth]>> \o Below(fs[k].Field, depth + 1)], 1, Len(fs))

\* the fields below the value v: those of the struct it is or points to, of
\* the struct elements of a sequence, of the struct values of a map
Below(v, depth) ==
    CASE v.kind = "struct" -> DeepFields(v, depth)
      [] v.kind = "ptr" -> IF v.isNil THEN <<>> ELSE Below(v.elem, depth)
      [] v.kind = "slice" -> LET with == SelectSeq(v.items, LAMBDA e : Len(Below(e, depth)) > 0)
                             IN IF Len(with) = 0 THEN <<>> ELSE Below(with[1], depth)
      [] v.kind = "map" -> LET with == SelectSeq(v.entries, LAMBDA e : Len(Below(e.v, depth)) > 0)
                           IN IF Len(with) = 0 THEN <<>> ELSE Below(with[1].v, depth)
      [] OTHER -> <<>>

\* the lines of lines that are equal to line
LinesEqual(lines, line) == SelectSeq(Indices(lines), LAMBDA l : lines[l] = line)

\* C21: in Separate style the text of a struct has one banner, opened by the
\* first line and closed by one rule line; between the two stands one line
\* "# name(type):comment" for every field of the value at every depth, in
\* the order of the fields; and behind the banner no line holds a comment.
C21_SeparateBannerListsEveryField ==
    (Returned("Gen") /\ OnStruct /\ EffectiveStyle = StyleSeparate /\ ret.err = "" /\ Len(CallDescriptors) > 0) =>
        LET lines == RetLines
            opened == LinesEqual(lines, Repeat(<<35>>, 44))  \* "#"
            closed == LinesEqual(lines, Repeat(<<35>>, 43))  \* "#"
            expected == DeepFields(StructOf(call.v), 0)
        IN /\ opened = <<1>>
           /\ Len(closed) = 1
           /\ closed[1] = Len(expected) + 2
           /\ \A k \in 1..Len(expected) :
                  HasPrefix(lines[k + 1], <<35, 32>> \o Repeat(<<32, 32>>, expected[k].depth) \o expected[k].name \o <<40>>)  \* "# " "  " "("
           /\ \A l \in (closed[1] + 1)..Len(lines) : \A i \in Hashes(lines[l]) : ~StartsComment(lines[l], i)

\* the fields up to the first one with children, that one included
DocPrefix(fields) ==
    LET parents == SelectSeq(Indices(fields), LAMBDA k : fields[k].HasChildren)
    IN IF Len(parents) = 0 THEN fields ELSE SubSeq(fields, 1, parents[1])

\* a line of a banner: a rule, or "# name(type):comment"
IsBannerLine(line) ==
    LET t == TrimLeftSet(line, {32})
    IN \/ t \in {Repeat(<<35>>, 44), Repeat(<<35>>, 43)}  \* "#" "#"
       \/ HasPrefix(t, <<35, 32>>) /\ \E i \in 1..(Len(t) - 1) : SubSeq(t, i, i + 1) = <<41, 58>>  \* "# " "):"

RECURSIVE HasBadString(_)
\* a string with a control character other than newline, tab and carriage
\* return stands in v or below it
HasBadString(v) ==
    CASE v.kind = "string" -> \E i \in 1..Len(v.s) : BadControl(v.s[i])
      [] v.kind = "ptr" -> ~v.isNil /\ HasBadString(v.elem)
      [] v.kind = "struct" -> LET fs == collectFieldInfo(v, <<>>, EmptyOptions)
                              IN \E k \in 1..Len(fs) : HasBadString(fs[k].Field)
      [] v.kind = "slice" -> \E k \in 1..Len(v.items) : HasBadString(v.items[k])
      [] v.kind = "map" -> \E k \in 1..Len(v.entries) : HasBadString(v.entries[k].v)
      [] OTHER -> FALSE

\* C23: in a style other than Minimal, Gen of a value with a control
\* character (other than newline, tab, carriage return) in a string at any
\* depth returns an error and no bytes.
C23_ControlCharacterFailsGen ==
    (Returned("Gen") /\ OnStruct /\ EffectiveStyle # StyleMinimal /\ HasBadString(Values[call.v])) =>
        ret.err # "" /\ ret.data = <<>>

\* the lines of lines whose first text is "- "
ItemLines(lines) == SelectSeq(Indices(lines), LAMBDA l : HasPrefix(TrimLeftSet(lines[l], {32}), <<45, 32>>))  \* "- "

\* the elements of a sequence of n structs whose text stands in line
ElementsIn(line, n) == {k \in 1..n : Contains(line, Company(k).elem.fields[1].val.s)}

\* C24: generateSlice writes a sequence of n structs with one line "- " for
\* each element, in the order of the elements and at the indentation of the
\* sequence, and no line holds text of two elements.
C24_OneItemLinePerElement ==
    (Returned("generateSlice") /\ ret.err = "") =>
        LET lines == Split(ret.text, 10)
            items == ItemLines(lines)
        IN /\ Len(items) = call.n
           /\ \A k \in 1..Len(items) :
                  /\ LeadingSpaces(lines[items[k]]) = 2
                  /\ k \in ElementsIn(lines[items[k]], call.n)
           /\ \A l \in 1..Len(lines) : Cardinality(ElementsIn(lines[l], call.n)) <= 1

\* the lines at indentation 0 that are neither blank nor a comment
LevelKeyLines(lines) ==
    SelectSeq(lines, LAMBDA line : line # <<>> /\ line[1] \notin {32, 35})

\* C25: in a style other than Minimal the text of a struct holds one key
\* line "name:" for each of its field descriptors, in the order of
\* declaration: no field is left out.
C25_EveryFieldHasItsKeyLine ==
    (Returned("Gen") /\ OnStruct /\ EffectiveStyle # StyleMinimal /\ ret.err = "") =>
        LET keys == LevelKeyLines(RetLines)
            fields == CallDescriptors
        IN /\ Len(keys) = Len(fields)
           /\ \A k \in 1..Len(fields) : HasPrefix(keys[k], fields[k].Name \o <<58>>)  \* ":"

RECURSIVE SequenceFields(_, _)
\* the fields of the struct val, and of the structs below its fields, whose
\* value is a sequence with elements: each with the depth of its key
SequenceFields(val, depth) ==
    LET fs == collectFieldInfo(val, <<>>, EmptyOptions)
        below(v) == CASE v.kind = "struct" -> SequenceFields(v, depth + 1)
                      [] v.kind = "ptr" -> IF ~v.isNil /\ v.elem.kind = "struct" THEN SequenceFields(v.elem, depth + 1) ELSE <<>>
                      [] OTHER -> <<>>
    IN Concat([k \in 1..Len(fs) |->
                  (IF fs[k].Field.kind = "slice" /\ Len(fs[k].Field.items) > 0
                   THEN <<[name |-> fs[k].Name, depth |-> depth]>> ELSE <<>>)
                  \o below(fs[k].Field)], 1, Len(fs))

\* the lines that hold the key of the field f, at the indentation of its depth
KeyLinesOf(lines, f) ==
    SelectSeq(Indices(lines), LAMBDA l : LeadingSpaces(lines[l]) = 2 * f.depth
                                         /\ HasPrefix(TrimLeftSet(lines[l], {32}), f.name \o <<58>>))  \* ":"

\* a line that ends the block of a key at indentation at: a key line, not
\* an item line, that is not deeper
EndsBlock(line, at) ==
    LET t == TrimLeftSet(line, {32})
    IN t # <<>> /\ t[1] \notin {35, 45} /\ LeadingSpaces(line) <= at

\* the item lines "- " that follow the key line k up to the end of its block
ItemLinesBelow(lines, k, at) ==
    LET ends == SelectSeq(Indices(lines), LAMBDA l : l > k /\ EndsBlock(lines[l], at))
        last == IF Len(ends) = 0 THEN Len(lines) ELSE ends[1] - 1
    IN {l \in (k + 1)..last : HasPrefix(TrimLeftSet(lines[l], {32}), <<45, 32>>)}  \* "- "

\* C26: in a style other than Minimal the item lines of a sequence whose key
\* stands at indentation 2*d stand at indentation 2*(d+1), for sequences of
\* scalars and of structs.
C26_ItemsIndentedBelowKey ==
    (Returned("Gen") /\ OnStruct /\ EffectiveStyle # StyleMinimal /\ ret.err = "") =>
        LET lines == RetLines
            seqs == SequenceFields(StructOf(call.v), 0)
        IN \A s \in 1..Len(seqs) : \A k \in 1..Len(KeyLinesOf(lines, seqs[s])) :
               \A l \in ItemLinesBelow(lines, KeyLinesOf(lines, seqs[s])[k], 2 * seqs[s].depth) :
                   LeadingSpaces(lines[l]) = 2 * (seqs[s].depth + 1)

\* C27: when GenWithValidation runs beside calls of SetGlobalStyle, Gen
\* renders with the style that ValidateOptions has validated, and that style
\* is one of the ordinals 0..10.
C27_RendersWithValidatedStyle ==
    (Returned("GenWithValidation") /\ "rendered" \in DOMAIN ret) =>
        /\ ret.rendered = ret.validated
        /\ ret.rendered \in 0..10

\* C28: when WriteFile fails because the value cannot be generated, the
\* file at the path is as it was before the call: not created, not truncated.
C28_FailedGenerationLeavesFile ==
    (/\ Returned("WriteFile")
     /\ call.filename # <<>> /\ call.created
     /\ Gen(GlobalCommentStyle, call.v, OptsOf(call.style, call.n)).err # "") =>
        /\ ret.err = Gen(GlobalCommentStyle, call.v, OptsOf(call.style, call.n)).err
        /\ ret.file = "untouched"

\* C29: the bytes GenWithValidation returns are the bytes Gen returns for
\* the same value and options, carriage-return/line-feed pairs included.
C29_ValidationKeepsBytes ==
    (Returned("GenWithValidation") /\ ret.err = "") =>
        ret.data = Gen(GlobalCommentStyle, call.v, OptsOf(call.style, call.n)).data

\* C30: ValidateStructure reports no indentation jump for a text in which
\* every line that is neither blank nor a comment has the indentation of
\* the line before it, whatever that indentation is.
C30_SameIndentationIsNoJump ==
    (Returned("ValidateStructure") /\ Len(SignificantLines(Utf8Decode(call.data))) > 1) =>
        LET lines == SignificantLines(Utf8Decode(call.data))
        IN (\A k \in 2..Len(lines) : LeadingSpaces(lines[k]) = LeadingSpaces(lines[k - 1])) =>
               ret.err # "invalid indentation jump"

====
